---------------------------- MODULE Spec2Model ----------------------------
(***************************************************************************)
(* Model of src/index.js: a Node.js process that bridges an RFID reader    *)
(* (inbound TCP peers) and a weight scale (outbound TCP client with        *)
(* reconnect) to two WebSocket servers, with a startup host-IP gate and a  *)
(* SIGINT shutdown handler.                                                *)
(*                                                                         *)
(* Node runs every callback to completion on one thread, so each handler   *)
(* of the source is one action.  The top-level script (lines 1-379) is     *)
(* also one run-to-completion block; it is modelled statement by statement *)
(* (ip walks MainScript) and no event handler is enabled before it ends.   *)
(***************************************************************************)
EXTENDS Integers, Sequences, FiniteSets, TLC

(***************************************************************************)
(* Bounds of the model.                                                    *)
(***************************************************************************)
\* Total number of data chunks the devices deliver in one behaviour.
MaxData == 2
\* Milliseconds of one clock tick.
TickMs == 2500
\* Cap on simultaneously pending timers (the source never exceeds one).
MaxTimers == 2

\* WebSocket sessions (ws objects created by a handshake) and RFID peers.
Sessions == {"A", "B"}
Peers    == {"P1", "P2"}
Channels == {"RFID", "Weight"}

(***************************************************************************)
(* Bytes and text.  A chunk is a Buffer: a sequence of bytes.  A payload   *)
(* is a JavaScript string, kept as its sequence of Unicode code points.    *)
(***************************************************************************)
\* "T" followed by e-acute (C3 A9), and the same text cut by a read boundary
\* after the first byte of the two-byte character.
DeviceChunks == { <<84, 195, 169>>, <<84, 195>> }

ReplacementChar == 65533

\* One step of the UTF-8 decoder behind Buffer.prototype.toString():
\* need = continuation bytes still expected, cp = code point so far,
\* lo..hi = range allowed for the next continuation byte.
RECURSIVE Utf8Decode(_, _, _, _, _, _)
Utf8Decode(bytes, i, need, cp, lo, hi) ==
    IF i > Len(bytes)
    THEN IF need # 0 THEN <<ReplacementChar>> ELSE <<>>
    ELSE LET b == bytes[i] IN
         IF need = 0
         THEN IF b <= 127
                THEN <<b>> \o Utf8Decode(bytes, i + 1, 0, 0, 128, 191)
              ELSE IF b >= 194 /\ b <= 223
                THEN Utf8Decode(bytes, i + 1, 1, b - 192, 128, 191)
              ELSE IF b >= 224 /\ b <= 239
                THEN Utf8Decode(bytes, i + 1, 2, b - 224,
                                IF b = 224 THEN 160 ELSE 128,
                                IF b = 237 THEN 159 ELSE 191)
              ELSE IF b >= 240 /\ b <= 244
                THEN Utf8Decode(bytes, i + 1, 3, b - 240,
                                IF b = 240 THEN 144 ELSE 128,
                                IF b = 244 THEN 143 ELSE 191)
              ELSE <<ReplacementChar>> \o Utf8Decode(bytes, i + 1, 0, 0, 128, 191)
         ELSE IF b < lo \/ b > hi
                THEN <<ReplacementChar>> \o Utf8Decode(bytes, i, 0, 0, 128, 191)
              ELSE IF need = 1
                THEN <<cp * 64 + (b - 128)>> \o Utf8Decode(bytes, i + 1, 0, 0, 128, 191)
              ELSE Utf8Decode(bytes, i + 1, need - 1, cp * 64 + (b - 128), 128, 191)

\* data.toString(): the chunk decoded as UTF-8 text.
toString(data) == Utf8Decode(data, 1, 0, 0, 128, 191)

\* The bytes of a text frame: the UTF-8 encoding of the string that
\* client.send(data) puts on the wire.
RECURSIVE Utf8Encode(_)
Utf8Encode(str) ==
    IF str = <<>> THEN <<>>
    ELSE LET c == Head(str)
             enc == IF c <= 127 THEN <<c>>
                    ELSE IF c <= 2047
                      THEN <<192 + (c \div 64), 128 + (c % 64)>>
                    ELSE IF c <= 65535
                      THEN <<224 + (c \div 4096), 128 + ((c \div 64) % 64),
                             128 + (c % 64)>>
                    ELSE <<240 + (c \div 262144), 128 + ((c \div 4096) % 64),
                           128 + ((c \div 64) % 64), 128 + (c % 64)>>
         IN enc \o Utf8Encode(Tail(str))

(***************************************************************************)
(* Configuration and host.                                                 *)
(***************************************************************************)
REQUIRED_HOST_IP == "192.168.1.10"
OTHER_HOST_IP    == "192.168.1.77"

\* Results of os.networkInterfaces(), flattened to a sequence of entries.
Iface(family, internal, address) ==
    [family |-> family, internal |-> internal, address |-> address]

HostConfigs ==
    { << Iface("IPv4", TRUE, "127.0.0.1"), Iface("IPv4", FALSE, REQUIRED_HOST_IP) >>,
      << Iface("IPv4", TRUE, "127.0.0.1"), Iface("IPv4", FALSE, OTHER_HOST_IP) >>,
      << Iface("IPv4", TRUE, REQUIRED_HOST_IP), Iface("IPv6", FALSE, REQUIRED_HOST_IP) >> }

\* The four listening ports of the process, by the server that binds them.
Ports == {"rfidWss", "weightWss", "rfidServer", "express"}

\* Which ports another process has already bound: none, or one of them.
BusyPortConfigs == { {} } \cup { {p} : p \in Ports }

RECONNECT_DELAY_MS == 5000

\* Strings that the print endpoint inspects, as sequences of UTF-16 code
\* units.
Str_NETWORK == << 78, 69, 84, 87, 79, 82, 75 >>                 \* 'NETWORK'
Str_USB     == << 85, 83, 66 >>                                 \* 'USB'
Str_usb     == << 117, 115, 98 >>                               \* 'usb'
Str_Name    == << 78, 97, 109, 101 >>                           \* 'Name'
Str_PDF     == << 80, 68, 70 >>                                 \* 'PDF'
Str_tm_t81  == << 116, 109, 45, 116, 56, 49 >>                  \* 'tm-t81'
Str_ulsb    == << 117, 383, 98 >>                               \* 'u\u017Fb' (long s)
Str_etiq    == << 233, 116, 105, 113 >>                         \* '\u00E9tiq'
Str_ETIQ    == << 201, 84, 73, 81, 160 >>                       \* '\u00C9TIQ\u00A0'
\* 'EPSON TM-T81 Receipt', the default of PRINTER_USB_NAME (line 59)
Str_EPSON   == << 69, 80, 83, 79, 78, 32, 84, 77, 45, 84, 56, 49, 32,
                  82, 101, 99, 101, 105, 112, 116 >>

\* PRINTER_CONNECTION and PRINTER_USB_NAME after their defaults (lines 58-59).
DefaultPrintEnv == [conn |-> Str_NETWORK, usbName |-> Str_EPSON]

PrintEnvs ==
    { DefaultPrintEnv,
      [conn |-> Str_USB, usbName |-> Str_EPSON],
      [conn |-> Str_usb, usbName |-> Str_tm_t81],
      [conn |-> Str_ulsb, usbName |-> Str_etiq] }

\* Print requests in flight, and what req.body can be: undefined, an object
\* with no printData, an object with a ticket in printData.
Requests == {"r1", "r2"}
Bodies == {"undefined", "noPrintData", "ticket"}

NoRequest ==
    [pc |-> "idle", body |-> "none",
     listing |-> [kind |-> "none", stdout |-> <<>>], printer |-> "none",
     isConnected |-> "unknown", built |-> FALSE, executed |-> "no"]


VARIABLES
    phase,          \* "script", "running" (event loop) or "exited"
    ip,             \* index of the next statement of MainScript
    exitCode,       \* -1 while the process lives
    interfaces,     \* the host's network interfaces
    busyPorts,      \* ports already bound by another process
    wssState,       \* per channel: "none", "listening", "bindFailed", "closed"
    rfidServer,     \* "none", "created", "listening", "bindFailed", "closed"
    expressServer,  \* "none", "listening", "bindFailed"
    handlers,       \* the error/SIGINT handlers of lines 358-379 are registered
    pendingErr,     \* 'error' events queued by failed binds, in emission order
    errLogged,      \* servers whose bind error was logged by its handler
    clients,        \* per channel: wss.clients
    readyState,     \* per session: "NONE", "OPEN", "CLOSING", "CLOSED"
    sessionChan,    \* per session: the channel whose server accepted it
    sent,           \* per session: the frames passed to client.send
    peers,          \* per RFID peer: "none", "open", "ended"
    recv,           \* per channel: chunks received on its device sockets
    bcast,          \* per channel: payloads of the broadcast calls
    wc,             \* weightClient: "none","new","connecting","connected","faulted","closing","closed"
    wcHandles,      \* live TCP handles opened by weightClient.connect
    timers,         \* pending setTimeout timers: [delay, elapsed], oldest first
    sigint,         \* the SIGINT handler has been entered
    shutdownLog,    \* statements of the SIGINT handler that completed
    printEnv,       \* PRINTER_CONNECTION and PRINTER_USB_NAME (lines 58-59)
    preq,           \* per print request: where its handler is and what it saw
    responses,      \* per print request: the responses written to res
    unhandled       \* print requests whose handler rejected

vars == << phase, ip, exitCode, interfaces, busyPorts, wssState, rfidServer,
           expressServer, handlers, pendingErr, errLogged, clients, readyState,
           sessionChan, sent, peers, recv, bcast, wc, wcHandles, timers,
           sigint, shutdownLog, printEnv, preq, responses, unhandled >>

startupVars == << interfaces, busyPorts >>
serverVars  == << wssState, rfidServer, expressServer, handlers, pendingErr, errLogged >>
wsVars      == << clients, readyState, sessionChan >>
dataVars    == << sent, recv, bcast >>
linkVars    == << wc, wcHandles, timers >>
procVars    == << phase, ip, exitCode >>
sigVars     == << sigint, shutdownLog >>
printVars   == << printEnv, preq, responses, unhandled >>

InitProcess ==
    /\ phase = "script"
    /\ ip = 1
    /\ exitCode = -1
    /\ interfaces \in HostConfigs
    /\ busyPorts \in BusyPortConfigs
    /\ wssState = [c \in Channels |-> "none"]
    /\ rfidServer = "none"
    /\ expressServer = "none"
    /\ handlers = FALSE
    /\ pendingErr = <<>>
    /\ errLogged = {}
    /\ clients = [c \in Channels |-> {}]
    /\ readyState = [s \in Sessions |-> "NONE"]
    /\ sessionChan = [s \in Sessions |-> "none"]
    /\ sent = [s \in Sessions |-> <<>>]
    /\ peers = [p \in Peers |-> "none"]
    /\ recv = [c \in Channels |-> <<>>]
    /\ bcast = [c \in Channels |-> <<>>]
    /\ wc = "none"
    /\ wcHandles = 0
    /\ timers = <<>>
    /\ sigint = FALSE
    /\ shutdownLog = <<>>
    /\ preq = [r \in Requests |-> NoRequest]
    /\ responses = [r \in Requests |-> <<>>]
    /\ unhandled = {}

\* The process under each printer configuration.
Init == InitProcess /\ printEnv \in PrintEnvs

\* The process with no printer variable in its environment.  Only the print
\* endpoint reads printEnv; the specifications without it start here.
BridgeInit == InitProcess /\ printEnv = DefaultPrintEnv


(***************************************************************************)
(* The top-level script, in source order.                                  *)
(***************************************************************************)
\* A variant of MainScript with a defect: the RFID listener is created and
\* started before the Weight WebSocket server exists.
MainScriptListenEarly ==
    << "checkHostIP", "createRfidWss", "createRfidServer", "listenRfid",
       "createWeightWss", "createWeightClient", "listenExpress",
       "connectWeightScale", "registerHandlers" >>

MainScript ==
    << "checkHostIP",          \* line 44
       "createRfidWss",        \* lines 68-70
       "createWeightWss",      \* lines 73-75
       "createRfidServer",     \* lines 296-312
       "createWeightClient",   \* lines 315-337
       "listenRfid",           \* lines 345-347
       "listenExpress",        \* lines 350-352
       "connectWeightScale",   \* line 355
       "registerHandlers" >>   \* lines 358-379

AtStatement(name) ==
    /\ phase = "script"
    /\ ip <= Len(MainScript)
    /\ MainScript[ip] = name

\* The statement is done: go to the next one, or enter the event loop.
Advance ==
    /\ ip' = ip + 1
    /\ phase' = IF ip = Len(MainScript) THEN "running" ELSE "script"
    /\ exitCode' = exitCode

\* checkHostIP(), lines 18-41: is some external IPv4 interface the required one?
\* A variant of validIP with a defect: any interface entry with the required
\* address passes, internal and IPv6 entries included.
validIPAnyEntry(ifs) ==
    \E i \in 1..Len(ifs) : ifs[i].address = REQUIRED_HOST_IP

validIP(ifs) ==
    \E i \in 1..Len(ifs) :
        /\ ifs[i].family = "IPv4"
        /\ ~ifs[i].internal
        /\ ifs[i].address = REQUIRED_HOST_IP

StmtCheckHostIP ==
    /\ AtStatement("checkHostIP")
    /\ IF validIP(interfaces)
       THEN Advance
       ELSE /\ phase' = "exited"          \* process.exit(1)
            /\ exitCode' = 1
            /\ ip' = ip
    /\ UNCHANGED << startupVars, printVars, serverVars, wsVars, peers, dataVars, linkVars, sigVars >>

\* listen() binds synchronously; a failed bind emits 'error' on the next tick.
BindResult(port) == IF port \in busyPorts THEN "bindFailed" ELSE "listening"
BindErrors(port) == IF port \in busyPorts THEN Append(pendingErr, port) ELSE pendingErr

WssPort(ch) == IF ch = "RFID" THEN "rfidWss" ELSE "weightWss"

\* new WebSocket.Server({ port }), lines 68-75
CreateWss(ch) ==
    /\ wssState' = [wssState EXCEPT ![ch] = BindResult(WssPort(ch))]
    /\ pendingErr' = BindErrors(WssPort(ch))
    /\ Advance
    /\ UNCHANGED << startupVars, printVars, rfidServer, expressServer, handlers, errLogged,
                    wsVars, peers, dataVars, linkVars, sigVars >>

StmtCreateRfidWss ==
    /\ AtStatement("createRfidWss")
    /\ CreateWss("RFID")

StmtCreateWeightWss ==
    /\ AtStatement("createWeightWss")
    /\ CreateWss("Weight")

\* net.createServer(...), lines 296-312
StmtCreateRfidServer ==
    /\ AtStatement("createRfidServer")
    /\ rfidServer' = "created"
    /\ Advance
    /\ UNCHANGED << startupVars, printVars, wssState, expressServer, handlers, pendingErr,
                    errLogged, wsVars, peers, dataVars, linkVars, sigVars >>

\* new net.Socket() and its 'data', 'close', 'error' handlers, lines 315-337
StmtCreateWeightClient ==
    /\ AtStatement("createWeightClient")
    /\ wc' = "new"
    /\ Advance
    /\ UNCHANGED << startupVars, printVars, serverVars, wsVars, peers, dataVars, wcHandles, timers,
                    sigVars >>

\* rfidServer.listen(RFID_TCP_PORT), lines 345-347
StmtListenRfid ==
    /\ AtStatement("listenRfid")
    /\ rfidServer' = BindResult("rfidServer")
    /\ pendingErr' = BindErrors("rfidServer")
    /\ Advance
    /\ UNCHANGED << startupVars, printVars, wssState, expressServer, handlers, errLogged,
                    wsVars, peers, dataVars, linkVars, sigVars >>

\* app.listen(EXPRESS_PORT), lines 350-352
StmtListenExpress ==
    /\ AtStatement("listenExpress")
    /\ expressServer' = BindResult("express")
    /\ pendingErr' = BindErrors("express")
    /\ Advance
    /\ UNCHANGED << startupVars, printVars, wssState, rfidServer, handlers, errLogged,
                    wsVars, peers, dataVars, linkVars, sigVars >>

(***************************************************************************)
(* The weight-scale client (DeviceLink).                                   *)
(***************************************************************************)
WcLive(st) == st \in {"connecting", "connected"}

\* connectWeightScale(), lines 317-321.  net.Socket.connect is defined only
\* for a socket that never connected or whose 'close' has been emitted;
\* on any other socket the outcome is not defined by Node: the call may
\* start a second connection or fail the socket.
ConnectOutcomes(st, h) ==
    IF st \in {"none", "new", "closed"}
    THEN { << "connecting", 1 >> }
    ELSE { << "connecting", h + 1 >>, << "connecting", h >>, << "faulted", 0 >> }

connectWeightScale ==
    \E o \in ConnectOutcomes(wc, wcHandles) :
        /\ wc' = o[1]
        /\ wcHandles' = o[2]

StmtConnectWeightScale ==
    /\ AtStatement("connectWeightScale")
    /\ connectWeightScale
    /\ Advance
    /\ UNCHANGED << startupVars, printVars, serverVars, wsVars, peers, dataVars, timers, sigVars >>

\* rfidServer.on('error'), rfidWss.on('error'), weightWss.on('error'),
\* process.on('SIGINT'), lines 358-379
StmtRegisterHandlers ==
    /\ AtStatement("registerHandlers")
    /\ handlers' = TRUE
    /\ Advance
    /\ UNCHANGED << startupVars, printVars, wssState, rfidServer, expressServer, pendingErr,
                    errLogged, wsVars, peers, dataVars, linkVars, sigVars >>

(***************************************************************************)
(* The event loop.  The 'error' events of failed binds were queued with    *)
(* process.nextTick during the script, so they are handled before any I/O  *)
(* event.                                                                  *)
(***************************************************************************)
Running == phase = "running"
Idle    == Running /\ pendingErr = <<>>

\* Servers whose 'error' event has a listener (lines 358-368).
HandledErrors == IF handlers THEN {"rfidServer", "rfidWss", "weightWss"} ELSE {}

\* The 'error' event of rfidServer, rfidWss or weightWss: the listener logs it.
ServerError ==
    /\ Running
    /\ pendingErr # <<>>
    /\ Head(pendingErr) \in HandledErrors
    /\ errLogged' = errLogged \cup {Head(pendingErr)}
    /\ pendingErr' = Tail(pendingErr)
    /\ UNCHANGED << procVars, startupVars, printVars, wssState, rfidServer, expressServer,
                    handlers, wsVars, peers, dataVars, linkVars, sigVars >>

\* An 'error' event nobody listens to.  For the HTTP server of app.listen
\* it depends on the installed express: version 4 leaves the event without a
\* listener (uncaught exception, exit code 1), version 5 passes the error to
\* the listen callback, which ignores it.
UnhandledServerError ==
    /\ Running
    /\ pendingErr # <<>>
    /\ Head(pendingErr) \notin HandledErrors
    /\ pendingErr' = Tail(pendingErr)
    /\ \/ /\ phase' = "exited"
          /\ exitCode' = 1
          /\ ip' = ip
       \/ /\ Head(pendingErr) = "express"
          /\ UNCHANGED procVars
    /\ UNCHANGED << startupVars, printVars, wssState, rfidServer, expressServer, handlers,
                    errLogged, wsVars, peers, dataVars, linkVars, sigVars >>


(***************************************************************************)
(* WebSocket subscribers.  The ws server adds a session to wss.clients     *)
(* when its handshake completes (the session is then OPEN) and deletes it  *)
(* in the session's 'close' event; the source adds no handler of its own.  *)
(***************************************************************************)
\* The frames sent to a session when its handshake completes: neither
\* WebSocket server has a 'connection' handler (lines 68-75), so none.
OnConnectFrames(ch) == <<>>

WsConnect(s, ch) ==
    /\ Idle
    /\ wssState[ch] = "listening"
    /\ readyState[s] = "NONE"
    /\ readyState' = [readyState EXCEPT ![s] = "OPEN"]
    /\ sessionChan' = [sessionChan EXCEPT ![s] = ch]
    /\ clients' = [clients EXCEPT ![ch] = @ \cup {s}]
    /\ sent' = [sent EXCEPT ![s] = @ \o OnConnectFrames(ch)]
    /\ UNCHANGED << procVars, startupVars, printVars, serverVars, peers, recv, bcast,
                    linkVars, sigVars >>

\* A well-formed close frame was received from the session, or its socket
\* failed (reset): ws makes the session CLOSING until the socket has closed
\* and emits no 'error' on it.
WsClosing(s) ==
    /\ Idle
    /\ readyState[s] = "OPEN"
    /\ readyState' = [readyState EXCEPT ![s] = "CLOSING"]
    /\ UNCHANGED << procVars, startupVars, printVars, serverVars, clients, sessionChan,
                    peers, dataVars, linkVars, sigVars >>

\* The events of a session that have a listener: neither WebSocket server
\* has a 'connection' handler (lines 68-75), so the source never gets hold
\* of a session to listen on.
SessionListeners == {}

\* The session sends a frame the ws receiver rejects (a frame without mask,
\* a reserved opcode, text that is not UTF-8, a close frame with a one-byte
\* payload): ws makes the session CLOSING, leaves it in wss.clients and
\* emits 'error' on it.  An 'error' event without a listener is thrown as
\* an uncaught exception: the process ends with exit code 1.
WsInvalidFrame(s) ==
    /\ Idle
    /\ readyState[s] = "OPEN"
    /\ readyState' = [readyState EXCEPT ![s] = "CLOSING"]
    /\ IF "error" \in SessionListeners
       THEN UNCHANGED procVars
       ELSE /\ phase' = "exited"
            /\ exitCode' = 1
            /\ ip' = ip
    /\ UNCHANGED << startupVars, printVars, serverVars, clients, sessionChan,
                    peers, dataVars, linkVars, sigVars >>

\* The session's 'close' event: it is CLOSED and leaves wss.clients.
WsClose(s) ==
    /\ Idle
    /\ readyState[s] \in {"OPEN", "CLOSING"}
    /\ readyState' = [readyState EXCEPT ![s] = "CLOSED"]
    /\ clients' = [c \in Channels |-> clients[c] \ {s}]
    /\ UNCHANGED << procVars, startupVars, printVars, serverVars, sessionChan, peers,
                    dataVars, linkVars, sigVars >>

(***************************************************************************)
(* Broadcast, lines 78-92.                                                 *)
(***************************************************************************)
\* Variants of SendTargets with a defect: no readyState test; a list of
\* every session the server ever accepted, never pruned and never tested.
SendTargetsNoStateCheck(ch) == clients[ch]
SendTargetsEverAccepted(ch) == { s \in Sessions : sessionChan[s] = ch }
\* A variant with a defect: the loop runs over the other server's clients.
SendTargetsOtherServer(ch) ==
    { s \in clients[IF ch = "RFID" THEN "Weight" ELSE "RFID"] : readyState[s] = "OPEN" }

\* The clients that broadcastRFID / broadcastWeight call client.send on.
SendTargets(ch) == { s \in clients[ch] : readyState[s] = "OPEN" }

\* A variant of ClientsAfterBroadcast with a defect: the broadcast drops
\* the clients it could not send to.
ClientsPrunedOnBroadcast(ch) == [clients EXCEPT ![ch] = SendTargets(ch)]

\* wss.clients after a broadcast call on channel ch (lines 78-92): forEach
\* only reads the set, and client.send never removes a client.
ClientsAfterBroadcast(ch) == clients

\* sent after one broadcast call with payload m on channel ch
SentAfter(snt, ch, m) ==
    [s \in Sessions |-> IF s \in SendTargets(ch) THEN Append(snt[s], m) ELSE snt[s]]

RECURSIVE SentAfterAll(_, _, _)
SentAfterAll(snt, ch, ms) ==
    IF ms = <<>> THEN snt
    ELSE SentAfterAll(SentAfter(snt, ch, Head(ms)), ch, Tail(ms))

\* The broadcast calls a 'data' handler makes for one chunk (lines 299-303
\* and 323-327): one call, with the chunk converted by toString().
OnData(data) == << toString(data) >>

\* The 'data' handler of channel ch receives a chunk.
HandleData(ch, data) ==
    /\ recv' = [recv EXCEPT ![ch] = Append(@, data)]
    /\ bcast' = [bcast EXCEPT ![ch] = @ \o OnData(data)]
    /\ sent' = SentAfterAll(sent, ch, OnData(data))
    /\ clients' = ClientsAfterBroadcast(ch)

DataBudget == Len(recv["RFID"]) + Len(recv["Weight"]) < MaxData

(***************************************************************************)
(* The RFID listener (DeviceListener), lines 296-312.                      *)
(***************************************************************************)
\* A variant of PeersAfterGone with a defect: the event of one peer ends
\* every accepted socket.
PeersAfterGoneDropsAll(p) ==
    [q \in Peers |-> IF peers[q] = "open" THEN "ended" ELSE peers[q]]

\* What the 'end' or 'error' of peer p does to the accepted sockets: the
\* handlers of lines 305-311 only log, and that one socket is on its way to
\* its 'close'.
PeersAfterGone(p) == [peers EXCEPT ![p] = "ended"]

\* net.createServer callback, lines 296-298
RfidAccept(p) ==
    /\ Idle
    /\ rfidServer = "listening"
    /\ peers[p] = "none"
    /\ peers' = [peers EXCEPT ![p] = "open"]
    /\ UNCHANGED << procVars, startupVars, printVars, serverVars, wsVars, dataVars,
                    linkVars, sigVars >>

\* socket.on('data'), lines 299-303
RfidData(p, data) ==
    /\ Idle
    /\ peers[p] = "open"
    /\ DataBudget
    /\ HandleData("RFID", data)
    /\ UNCHANGED << procVars, startupVars, printVars, serverVars, readyState,
                    sessionChan, peers, linkVars, sigVars >>

\* socket.on('end'), lines 305-307: logs.  The peer has sent FIN; no more
\* data comes from it and the socket closes next.
RfidEnd(p) ==
    /\ Idle
    /\ peers[p] = "open"
    /\ peers' = PeersAfterGone(p)
    /\ UNCHANGED << procVars, startupVars, printVars, serverVars, wsVars, dataVars,
                    linkVars, sigVars >>

\* socket.on('error'), lines 309-311: logs.  The socket is destroyed and
\* closes next.
RfidError(p) ==
    /\ Idle
    /\ peers[p] = "open"
    /\ peers' = PeersAfterGone(p)
    /\ UNCHANGED << procVars, startupVars, printVars, serverVars, wsVars, dataVars,
                    linkVars, sigVars >>

\* The socket of an ended or failed peer has closed (the source has no
\* 'close' listener, lines 296-312): it is released, and the peer may
\* connect again.
RfidClosed(p) ==
    /\ Idle
    /\ peers[p] = "ended"
    /\ peers' = [peers EXCEPT ![p] = "none"]
    /\ UNCHANGED << procVars, startupVars, printVars, serverVars, wsVars, dataVars,
                    linkVars, sigVars >>


(***************************************************************************)
(* The weight-scale link: socket events and the reconnect timer.           *)
(***************************************************************************)
Min(a, b) == IF a <= b THEN a ELSE b
Max(a, b) == IF a >= b THEN a ELSE b

\* setTimeout(connectWeightScale, 5000), line 332
ScheduleReconnect(ts) ==
    Append(ts, [delay |-> RECONNECT_DELAY_MS, elapsed |-> 0])

\* Variants of the handlers with a defect: the 'close' handler arms two
\* timers; the 'error' handler arms one too.
OnWeightCloseTwice(ts) == ScheduleReconnect(ScheduleReconnect(ts))
OnWeightErrorReconnects(ts) == ScheduleReconnect(ts)

\* What the 'close' handler (lines 329-333) does to the pending timers.
OnWeightClose(ts) == ScheduleReconnect(ts)

\* What the 'error' handler (lines 335-337) does to the pending timers: it
\* only logs.
OnWeightError(ts) == ts

\* The connect callback of line 318: the connection is established.
WeightConnected ==
    /\ Idle
    /\ wc = "connecting"
    /\ wc' = "connected"
    /\ UNCHANGED << procVars, startupVars, printVars, serverVars, wsVars, peers, dataVars,
                    wcHandles, timers, sigVars >>

\* weightClient.on('data'), lines 323-327
WeightData(data) ==
    /\ Idle
    /\ wc = "connected"
    /\ DataBudget
    /\ HandleData("Weight", data)
    /\ UNCHANGED << procVars, startupVars, printVars, serverVars, readyState,
                    sessionChan, peers, linkVars, sigVars >>

\* The connect attempt fails or the connection breaks: the socket is
\* destroyed with an error; 'error' and then 'close' will be emitted.
WeightFault ==
    /\ Idle
    /\ WcLive(wc)
    /\ wc' = "faulted"
    /\ wcHandles' = Max(wcHandles - 1, 0)
    /\ UNCHANGED << procVars, startupVars, printVars, serverVars, wsVars, peers, dataVars,
                    timers, sigVars >>

\* The scale closes the connection: the socket ends and is destroyed;
\* 'close' will be emitted.
WeightPeerEnd ==
    /\ Idle
    /\ wc = "connected"
    /\ wc' = "closing"
    /\ wcHandles' = Max(wcHandles - 1, 0)
    /\ UNCHANGED << procVars, startupVars, printVars, serverVars, wsVars, peers, dataVars,
                    timers, sigVars >>

\* The events of weightClient that have a listener (lines 323, 329, 335).
WeightClientListeners == { "data", "close", "error" }

\* weightClient.on('error'), lines 335-337.  An 'error' event without a
\* listener would be thrown as an uncaught exception (exit code 1).
WeightErrorEvent ==
    /\ Idle
    /\ wc = "faulted"
    /\ Len(OnWeightError(timers)) <= MaxTimers
    /\ wc' = "closing"
    /\ IF "error" \in WeightClientListeners
       THEN /\ timers' = OnWeightError(timers)
            /\ UNCHANGED procVars
       ELSE /\ phase' = "exited"
            /\ exitCode' = 1
            /\ UNCHANGED << ip, timers >>
    /\ UNCHANGED << startupVars, printVars, serverVars, wsVars, peers, dataVars,
                    wcHandles, sigVars >>

\* weightClient.on('close'), lines 329-333
WeightCloseEvent ==
    /\ Idle
    /\ wc = "closing"
    /\ Len(OnWeightClose(timers)) <= MaxTimers
    /\ wc' = "closed"
    /\ timers' = OnWeightClose(timers)
    /\ UNCHANGED << procVars, startupVars, printVars, serverVars, wsVars, peers, dataVars,
                    wcHandles, sigVars >>

\* Time passes: every pending timer is one tick older.
Tick ==
    /\ Running
    /\ \E i \in 1..Len(timers) : timers[i].elapsed < timers[i].delay
    /\ timers' = [i \in 1..Len(timers) |->
                    [timers[i] EXCEPT !.elapsed = Min(@ + TickMs, timers[i].delay)]]
    /\ UNCHANGED << procVars, startupVars, printVars, serverVars, wsVars, peers, dataVars,
                    wc, wcHandles, sigVars >>

\* The oldest timer is due: its callback, connectWeightScale, runs.
TimerFire ==
    /\ Idle
    /\ timers # <<>>
    /\ Head(timers).elapsed >= Head(timers).delay
    /\ timers' = Tail(timers)
    /\ connectWeightScale
    /\ UNCHANGED << procVars, startupVars, printVars, serverVars, wsVars, peers, dataVars,
                    sigVars >>

(***************************************************************************)
(* Shutdown, lines 371-379.                                                *)
(***************************************************************************)
\* Methods of the object express() returns (line 63); the HTTP server that
\* has a close method is the return value of app.listen, which line 350
\* discards.
AppMethods ==
    { "use", "listen", "get", "post", "put", "delete", "all", "route", "set",
      "enable", "disable", "engine", "param", "render" }

\* A variant of the SIGINT handler with a defect: it closes everything and
\* returns without ending the process.
SigintHandlerNoExit ==
    << "rfidServer.close", "weightClient.destroy", "rfidWss.close",
       "weightWss.close" >>

\* The statements of the SIGINT handler, in source order.
SigintHandler ==
    << "rfidServer.close",     \* line 373
       "weightClient.destroy", \* line 374
       "rfidWss.close",        \* line 375
       "weightWss.close",      \* line 376
       "app.close",            \* line 377
       "process.exit" >>       \* line 378

\* Calling a property that is not a function throws a TypeError.
Throws(stmt) == stmt = "app.close" /\ "close" \notin AppMethods

\* The statements that run to completion: up to the first one that throws,
\* or up to process.exit.
RECURSIVE Completed(_)
Completed(stmts) ==
    IF stmts = <<>> THEN <<>>
    ELSE IF Throws(Head(stmts)) THEN <<>>
    ELSE IF Head(stmts) = "process.exit" THEN << Head(stmts) >>
    ELSE << Head(stmts) >> \o Completed(Tail(stmts))

Ran(stmt) == \E i \in 1..Len(Completed(SigintHandler)) : Completed(SigintHandler)[i] = stmt
HandlerExits  == Ran("process.exit")
HandlerThrows == ~HandlerExits /\ Len(Completed(SigintHandler)) < Len(SigintHandler)

\* process.on('SIGINT').  An exception that leaves the handler is an
\* uncaught exception: Node prints it and exits with code 1.
Sigint ==
    /\ Idle
    /\ handlers
    /\ ~sigint
    /\ sigint' = TRUE
    /\ shutdownLog' = Completed(SigintHandler)
    /\ rfidServer' = IF Ran("rfidServer.close") /\ rfidServer = "listening"
                     THEN "closed" ELSE rfidServer
    /\ wc' = IF Ran("weightClient.destroy") /\ WcLive(wc) THEN "closing" ELSE wc
    /\ wcHandles' = IF Ran("weightClient.destroy") /\ WcLive(wc)
                    THEN Max(wcHandles - 1, 0) ELSE wcHandles
    /\ wssState' = [c \in Channels |->
                      IF Ran(IF c = "RFID" THEN "rfidWss.close" ELSE "weightWss.close")
                         /\ wssState[c] = "listening"
                      THEN "closed" ELSE wssState[c]]
    /\ phase' = IF HandlerExits \/ HandlerThrows THEN "exited" ELSE phase
    /\ exitCode' = IF HandlerExits THEN 0 ELSE IF HandlerThrows THEN 1 ELSE exitCode
    /\ UNCHANGED << ip, startupVars, printVars, expressServer, handlers, pendingErr, errLogged,
                    wsVars, peers, dataVars, timers >>

(***************************************************************************)
(* The print endpoint, lines 95-179 and 182-293.  Strings that the code    *)
(* inspects are sequences of UTF-16 code units.                            *)
(***************************************************************************)
\* The printers installed on the host, in the order wmic lists them.
HostPrinters == { <<>>, << Str_PDF >>, << Str_PDF, Str_EPSON >>, << Str_ETIQ >> }

\* The text 'wmic printer get name' writes: a header line and one line per
\* printer, padded with spaces and ended by CR CR LF, then an empty line.
WmicLine(str) == str \o << 32, 32, 13, 13, 10 >>

RECURSIVE WmicLines(_)
WmicLines(names) ==
    IF names = <<>> THEN <<>> ELSE WmicLine(Head(names)) \o WmicLines(Tail(names))

WmicOutput(names) == WmicLine(Str_Name) \o WmicLines(names) \o << 13, 13, 10 >>

\* What exec hands to its callback (line 97): an error, text on stderr, or
\* the listing on stdout.
ExecOutcomes ==
    { [kind |-> "error", stdout |-> <<>>], [kind |-> "stderr", stdout |-> <<>>] }
    \cup { [kind |-> "stdout", stdout |-> WmicOutput(names)] : names \in HostPrinters }

\* The Unicode case mappings String.prototype.toUpperCase and toLowerCase
\* apply, from the Unicode 17.0 character database (the ICU data of
\* Node.js 20 and 22): a range <<first, last, step, to>> maps the code
\* points first, first + step, ... last to to, to + step, ...
UpperRanges ==
    { <<97,122,1,65>>, <<181,181,1,924>>, <<224,246,1,192>>,
      <<248,254,1,216>>, <<255,255,1,376>>, <<257,303,2,256>>,
      <<305,305,1,73>>, <<307,311,2,306>>, <<314,328,2,313>>,
      <<331,375,2,330>>, <<378,382,2,377>>, <<383,383,1,83>>,
      <<384,384,1,579>>, <<387,389,2,386>>, <<392,392,1,391>>,
      <<396,396,1,395>>, <<402,402,1,401>>, <<405,405,1,502>>,
      <<409,409,1,408>>, <<410,410,1,573>>, <<411,411,1,42972>>,
      <<414,414,1,544>>, <<417,421,2,416>>, <<424,424,1,423>>,
      <<429,429,1,428>>, <<432,432,1,431>>, <<436,438,2,435>>,
      <<441,441,1,440>>, <<445,445,1,444>>, <<447,447,1,503>>,
      <<453,453,1,452>>, <<454,454,1,452>>, <<456,456,1,455>>,
      <<457,457,1,455>>, <<459,459,1,458>>, <<460,460,1,458>>,
      <<462,476,2,461>>, <<477,477,1,398>>, <<479,495,2,478>>,
      <<498,498,1,497>>, <<499,499,1,497>>, <<501,501,1,500>>,
      <<505,543,2,504>>, <<547,563,2,546>>, <<572,572,1,571>>,
      <<575,576,1,11390>>, <<578,578,1,577>>, <<583,591,2,582>>,
      <<592,592,1,11375>>, <<593,593,1,11373>>, <<594,594,1,11376>>,
      <<595,595,1,385>>, <<596,596,1,390>>, <<598,599,1,393>>,
      <<601,601,1,399>>, <<603,603,1,400>>, <<604,604,1,42923>>,
      <<608,608,1,403>>, <<609,609,1,42924>>, <<611,611,1,404>>,
      <<612,612,1,42955>>, <<613,613,1,42893>>, <<614,614,1,42922>>,
      <<616,616,1,407>>, <<617,617,1,406>>, <<618,618,1,42926>>,
      <<619,619,1,11362>>, <<620,620,1,42925>>, <<623,623,1,412>>,
      <<625,625,1,11374>>, <<626,626,1,413>>, <<629,629,1,415>>,
      <<637,637,1,11364>>, <<640,640,1,422>>, <<642,642,1,42949>>,
      <<643,643,1,425>>, <<647,647,1,42929>>, <<648,648,1,430>>,
      <<649,649,1,580>>, <<650,651,1,433>>, <<652,652,1,581>>,
      <<658,658,1,439>>, <<669,669,1,42930>>, <<670,670,1,42928>>,
      <<837,837,1,921>>, <<881,883,2,880>>, <<887,887,1,886>>,
      <<891,893,1,1021>>, <<940,940,1,902>>, <<941,943,1,904>>,
      <<945,961,1,913>>, <<962,962,1,931>>, <<963,971,1,931>>,
      <<972,972,1,908>>, <<973,974,1,910>>, <<976,976,1,914>>,
      <<977,977,1,920>>, <<981,981,1,934>>, <<982,982,1,928>>,
      <<983,983,1,975>>, <<985,1007,2,984>>, <<1008,1008,1,922>>,
      <<1009,1009,1,929>>, <<1010,1010,1,1017>>, <<1011,1011,1,895>>,
      <<1013,1013,1,917>>, <<1016,1016,1,1015>>, <<1019,1019,1,1018>>,
      <<1072,1103,1,1040>>, <<1104,1119,1,1024>>, <<1121,1153,2,1120>>,
      <<1163,1215,2,1162>>, <<1218,1230,2,1217>>, <<1231,1231,1,1216>>,
      <<1233,1327,2,1232>>, <<1377,1414,1,1329>>, <<4304,4346,1,7312>>,
      <<4349,4351,1,7357>>, <<5112,5117,1,5104>>, <<7296,7296,1,1042>>,
      <<7297,7297,1,1044>>, <<7298,7298,1,1054>>, <<7299,7300,1,1057>>,
      <<7301,7301,1,1058>>, <<7302,7302,1,1066>>, <<7303,7303,1,1122>>,
      <<7304,7304,1,42570>>, <<7306,7306,1,7305>>, <<7545,7545,1,42877>>,
      <<7549,7549,1,11363>>, <<7566,7566,1,42950>>, <<7681,7829,2,7680>>,
      <<7835,7835,1,7776>>, <<7841,7935,2,7840>>, <<7936,7943,1,7944>>,
      <<7952,7957,1,7960>>, <<7968,7975,1,7976>>, <<7984,7991,1,7992>>,
      <<8000,8005,1,8008>>, <<8017,8023,2,8025>>, <<8032,8039,1,8040>>,
      <<8048,8049,1,8122>>, <<8050,8053,1,8136>>, <<8054,8055,1,8154>>,
      <<8056,8057,1,8184>>, <<8058,8059,1,8170>>, <<8060,8061,1,8186>>,
      <<8112,8113,1,8120>>, <<8126,8126,1,921>>, <<8144,8145,1,8152>>,
      <<8160,8161,1,8168>>, <<8165,8165,1,8172>>, <<8526,8526,1,8498>>,
      <<8560,8575,1,8544>>, <<8580,8580,1,8579>>, <<9424,9449,1,9398>>,
      <<11312,11359,1,11264>>, <<11361,11361,1,11360>>, <<11365,11365,1,570>>,
      <<11366,11366,1,574>>, <<11368,11372,2,11367>>, <<11379,11379,1,11378>>,
      <<11382,11382,1,11381>>, <<11393,11491,2,11392>>,
      <<11500,11502,2,11499>>, <<11507,11507,1,11506>>,
      <<11520,11557,1,4256>>, <<11559,11559,1,4295>>, <<11565,11565,1,4301>>,
      <<42561,42605,2,42560>>, <<42625,42651,2,42624>>,
      <<42787,42799,2,42786>>, <<42803,42863,2,42802>>,
      <<42874,42876,2,42873>>, <<42879,42887,2,42878>>,
      <<42892,42892,1,42891>>, <<42897,42899,2,42896>>,
      <<42900,42900,1,42948>>, <<42903,42921,2,42902>>,
      <<42933,42947,2,42932>>, <<42952,42954,2,42951>>,
      <<42957,42971,2,42956>>, <<42998,42998,1,42997>>,
      <<43859,43859,1,42931>>, <<43888,43967,1,5024>>,
      <<65345,65370,1,65313>>, <<66600,66639,1,66560>>,
      <<66776,66811,1,66736>>, <<66967,66977,1,66928>>,
      <<66979,66993,1,66940>>, <<66995,67001,1,66956>>,
      <<67003,67004,1,66964>>, <<68800,68850,1,68736>>,
      <<68976,68997,1,68944>>, <<71872,71903,1,71840>>,
      <<93792,93823,1,93760>>, <<93883,93907,1,93856>>,
      <<125218,125251,1,125184>> }

\* Code points whose upper case is more than one code point.
UpperSpecial ==
    { <<223, <<83,83>>>>, <<329, <<700,78>>>>, <<496, <<74,780>>>>,
      <<912, <<921,776,769>>>>, <<944, <<933,776,769>>>>,
      <<1415, <<1333,1362>>>>, <<7830, <<72,817>>>>, <<7831, <<84,776>>>>,
      <<7832, <<87,778>>>>, <<7833, <<89,778>>>>, <<7834, <<65,702>>>>,
      <<8016, <<933,787>>>>, <<8018, <<933,787,768>>>>,
      <<8020, <<933,787,769>>>>, <<8022, <<933,787,834>>>>,
      <<8064, <<7944,921>>>>, <<8065, <<7945,921>>>>, <<8066, <<7946,921>>>>,
      <<8067, <<7947,921>>>>, <<8068, <<7948,921>>>>, <<8069, <<7949,921>>>>,
      <<8070, <<7950,921>>>>, <<8071, <<7951,921>>>>, <<8072, <<7944,921>>>>,
      <<8073, <<7945,921>>>>, <<8074, <<7946,921>>>>, <<8075, <<7947,921>>>>,
      <<8076, <<7948,921>>>>, <<8077, <<7949,921>>>>, <<8078, <<7950,921>>>>,
      <<8079, <<7951,921>>>>, <<8080, <<7976,921>>>>, <<8081, <<7977,921>>>>,
      <<8082, <<7978,921>>>>, <<8083, <<7979,921>>>>, <<8084, <<7980,921>>>>,
      <<8085, <<7981,921>>>>, <<8086, <<7982,921>>>>, <<8087, <<7983,921>>>>,
      <<8088, <<7976,921>>>>, <<8089, <<7977,921>>>>, <<8090, <<7978,921>>>>,
      <<8091, <<7979,921>>>>, <<8092, <<7980,921>>>>, <<8093, <<7981,921>>>>,
      <<8094, <<7982,921>>>>, <<8095, <<7983,921>>>>, <<8096, <<8040,921>>>>,
      <<8097, <<8041,921>>>>, <<8098, <<8042,921>>>>, <<8099, <<8043,921>>>>,
      <<8100, <<8044,921>>>>, <<8101, <<8045,921>>>>, <<8102, <<8046,921>>>>,
      <<8103, <<8047,921>>>>, <<8104, <<8040,921>>>>, <<8105, <<8041,921>>>>,
      <<8106, <<8042,921>>>>, <<8107, <<8043,921>>>>, <<8108, <<8044,921>>>>,
      <<8109, <<8045,921>>>>, <<8110, <<8046,921>>>>, <<8111, <<8047,921>>>>,
      <<8114, <<8122,921>>>>, <<8115, <<913,921>>>>, <<8116, <<902,921>>>>,
      <<8118, <<913,834>>>>, <<8119, <<913,834,921>>>>, <<8124, <<913,921>>>>,
      <<8130, <<8138,921>>>>, <<8131, <<919,921>>>>, <<8132, <<905,921>>>>,
      <<8134, <<919,834>>>>, <<8135, <<919,834,921>>>>, <<8140, <<919,921>>>>,
      <<8146, <<921,776,768>>>>, <<8147, <<921,776,769>>>>,
      <<8150, <<921,834>>>>, <<8151, <<921,776,834>>>>,
      <<8162, <<933,776,768>>>>, <<8163, <<933,776,769>>>>,
      <<8164, <<929,787>>>>, <<8166, <<933,834>>>>, <<8167, <<933,776,834>>>>,
      <<8178, <<8186,921>>>>, <<8179, <<937,921>>>>, <<8180, <<911,921>>>>,
      <<8182, <<937,834>>>>, <<8183, <<937,834,921>>>>, <<8188, <<937,921>>>>,
      <<64256, <<70,70>>>>, <<64257, <<70,73>>>>, <<64258, <<70,76>>>>,
      <<64259, <<70,70,73>>>>, <<64260, <<70,70,76>>>>, <<64261, <<83,84>>>>,
      <<64262, <<83,84>>>>, <<64275, <<1348,1350>>>>,
      <<64276, <<1348,1333>>>>, <<64277, <<1348,1339>>>>,
      <<64278, <<1358,1350>>>>, <<64279, <<1348,1341>>>> }

LowerRanges ==
    { <<65,90,1,97>>, <<192,214,1,224>>, <<216,222,1,248>>, <<256,302,2,257>>,
      <<306,310,2,307>>, <<313,327,2,314>>, <<330,374,2,331>>,
      <<376,376,1,255>>, <<377,381,2,378>>, <<385,385,1,595>>,
      <<386,388,2,387>>, <<390,390,1,596>>, <<391,391,1,392>>,
      <<393,394,1,598>>, <<395,395,1,396>>, <<398,398,1,477>>,
      <<399,399,1,601>>, <<400,400,1,603>>, <<401,401,1,402>>,
      <<403,403,1,608>>, <<404,404,1,611>>, <<406,406,1,617>>,
      <<407,407,1,616>>, <<408,408,1,409>>, <<412,412,1,623>>,
      <<413,413,1,626>>, <<415,415,1,629>>, <<416,420,2,417>>,
      <<422,422,1,640>>, <<423,423,1,424>>, <<425,425,1,643>>,
      <<428,428,1,429>>, <<430,430,1,648>>, <<431,431,1,432>>,
      <<433,434,1,650>>, <<435,437,2,436>>, <<439,439,1,658>>,
      <<440,440,1,441>>, <<444,444,1,445>>, <<452,452,1,454>>,
      <<453,453,1,454>>, <<455,455,1,457>>, <<456,456,1,457>>,
      <<458,458,1,460>>, <<459,475,2,460>>, <<478,494,2,479>>,
      <<497,497,1,499>>, <<498,500,2,499>>, <<502,502,1,405>>,
      <<503,503,1,447>>, <<504,542,2,505>>, <<544,544,1,414>>,
      <<546,562,2,547>>, <<570,570,1,11365>>, <<571,571,1,572>>,
      <<573,573,1,410>>, <<574,574,1,11366>>, <<577,577,1,578>>,
      <<579,579,1,384>>, <<580,580,1,649>>, <<581,581,1,652>>,
      <<582,590,2,583>>, <<880,882,2,881>>, <<886,886,1,887>>,
      <<895,895,1,1011>>, <<902,902,1,940>>, <<904,906,1,941>>,
      <<908,908,1,972>>, <<910,911,1,973>>, <<913,929,1,945>>,
      <<931,939,1,963>>, <<975,975,1,983>>, <<984,1006,2,985>>,
      <<1012,1012,1,952>>, <<1015,1015,1,1016>>, <<1017,1017,1,1010>>,
      <<1018,1018,1,1019>>, <<1021,1023,1,891>>, <<1024,1039,1,1104>>,
      <<1040,1071,1,1072>>, <<1120,1152,2,1121>>, <<1162,1214,2,1163>>,
      <<1216,1216,1,1231>>, <<1217,1229,2,1218>>, <<1232,1326,2,1233>>,
      <<1329,1366,1,1377>>, <<4256,4293,1,11520>>, <<4295,4295,1,11559>>,
      <<4301,4301,1,11565>>, <<5024,5103,1,43888>>, <<5104,5109,1,5112>>,
      <<7305,7305,1,7306>>, <<7312,7354,1,4304>>, <<7357,7359,1,4349>>,
      <<7680,7828,2,7681>>, <<7838,7838,1,223>>, <<7840,7934,2,7841>>,
      <<7944,7951,1,7936>>, <<7960,7965,1,7952>>, <<7976,7983,1,7968>>,
      <<7992,7999,1,7984>>, <<8008,8013,1,8000>>, <<8025,8031,2,8017>>,
      <<8040,8047,1,8032>>, <<8072,8079,1,8064>>, <<8088,8095,1,8080>>,
      <<8104,8111,1,8096>>, <<8120,8121,1,8112>>, <<8122,8123,1,8048>>,
      <<8124,8124,1,8115>>, <<8136,8139,1,8050>>, <<8140,8140,1,8131>>,
      <<8152,8153,1,8144>>, <<8154,8155,1,8054>>, <<8168,8169,1,8160>>,
      <<8170,8171,1,8058>>, <<8172,8172,1,8165>>, <<8184,8185,1,8056>>,
      <<8186,8187,1,8060>>, <<8188,8188,1,8179>>, <<8486,8486,1,969>>,
      <<8490,8490,1,107>>, <<8491,8491,1,229>>, <<8498,8498,1,8526>>,
      <<8544,8559,1,8560>>, <<8579,8579,1,8580>>, <<9398,9423,1,9424>>,
      <<11264,11311,1,11312>>, <<11360,11360,1,11361>>, <<11362,11362,1,619>>,
      <<11363,11363,1,7549>>, <<11364,11364,1,637>>, <<11367,11371,2,11368>>,
      <<11373,11373,1,593>>, <<11374,11374,1,625>>, <<11375,11375,1,592>>,
      <<11376,11376,1,594>>, <<11378,11378,1,11379>>, <<11381,11381,1,11382>>,
      <<11390,11391,1,575>>, <<11392,11490,2,11393>>, <<11499,11501,2,11500>>,
      <<11506,11506,1,11507>>, <<42560,42604,2,42561>>,
      <<42624,42650,2,42625>>, <<42786,42798,2,42787>>,
      <<42802,42862,2,42803>>, <<42873,42875,2,42874>>,
      <<42877,42877,1,7545>>, <<42878,42886,2,42879>>,
      <<42891,42891,1,42892>>, <<42893,42893,1,613>>, <<42896,42898,2,42897>>,
      <<42902,42920,2,42903>>, <<42922,42922,1,614>>, <<42923,42923,1,604>>,
      <<42924,42924,1,609>>, <<42925,42925,1,620>>, <<42926,42926,1,618>>,
      <<42928,42928,1,670>>, <<42929,42929,1,647>>, <<42930,42930,1,669>>,
      <<42931,42931,1,43859>>, <<42932,42946,2,42933>>,
      <<42948,42948,1,42900>>, <<42949,42949,1,642>>, <<42950,42950,1,7566>>,
      <<42951,42953,2,42952>>, <<42955,42955,1,612>>, <<42956,42970,2,42957>>,
      <<42972,42972,1,411>>, <<42997,42997,1,42998>>, <<65313,65338,1,65345>>,
      <<66560,66599,1,66600>>, <<66736,66771,1,66776>>,
      <<66928,66938,1,66967>>, <<66940,66954,1,66979>>,
      <<66956,66962,1,66995>>, <<66964,66965,1,67003>>,
      <<68736,68786,1,68800>>, <<68944,68965,1,68976>>,
      <<71840,71871,1,71872>>, <<93760,93791,1,93792>>,
      <<93856,93880,1,93883>>, <<125184,125217,1,125218>> }

\* Code points whose lower case is more than one code point.
LowerSpecial ==
    { <<304, <<105,775>>>> }

\* Ranges of the case-ignorable code points, and of the cased code points
\* that are not case-ignorable: the context of a final sigma.
CaseIgnorableRanges ==
    { <<39,39>>, <<46,46>>, <<58,58>>, <<94,94>>, <<96,96>>, <<168,168>>,
      <<173,173>>, <<175,175>>, <<180,180>>, <<183,184>>, <<688,879>>,
      <<884,885>>, <<890,890>>, <<900,901>>, <<903,903>>, <<1155,1161>>,
      <<1369,1369>>, <<1375,1375>>, <<1425,1469>>, <<1471,1471>>,
      <<1473,1474>>, <<1476,1477>>, <<1479,1479>>, <<1524,1524>>,
      <<1536,1541>>, <<1552,1562>>, <<1564,1564>>, <<1600,1600>>,
      <<1611,1631>>, <<1648,1648>>, <<1750,1757>>, <<1759,1768>>,
      <<1770,1773>>, <<1807,1807>>, <<1809,1809>>, <<1840,1866>>,
      <<1958,1968>>, <<2027,2037>>, <<2042,2042>>, <<2045,2045>>,
      <<2070,2093>>, <<2137,2139>>, <<2184,2184>>, <<2192,2193>>,
      <<2199,2207>>, <<2249,2306>>, <<2362,2362>>, <<2364,2364>>,
      <<2369,2376>>, <<2381,2381>>, <<2385,2391>>, <<2402,2403>>,
      <<2417,2417>>, <<2433,2433>>, <<2492,2492>>, <<2497,2500>>,
      <<2509,2509>>, <<2530,2531>>, <<2558,2558>>, <<2561,2562>>,
      <<2620,2620>>, <<2625,2626>>, <<2631,2632>>, <<2635,2637>>,
      <<2641,2641>>, <<2672,2673>>, <<2677,2677>>, <<2689,2690>>,
      <<2748,2748>>, <<2753,2757>>, <<2759,2760>>, <<2765,2765>>,
      <<2786,2787>>, <<2810,2815>>, <<2817,2817>>, <<2876,2876>>,
      <<2879,2879>>, <<2881,2884>>, <<2893,2893>>, <<2901,2902>>,
      <<2914,2915>>, <<2946,2946>>, <<3008,3008>>, <<3021,3021>>,
      <<3072,3072>>, <<3076,3076>>, <<3132,3132>>, <<3134,3136>>,
      <<3142,3144>>, <<3146,3149>>, <<3157,3158>>, <<3170,3171>>,
      <<3201,3201>>, <<3260,3260>>, <<3263,3263>>, <<3270,3270>>,
      <<3276,3277>>, <<3298,3299>>, <<3328,3329>>, <<3387,3388>>,
      <<3393,3396>>, <<3405,3405>>, <<3426,3427>>, <<3457,3457>>,
      <<3530,3530>>, <<3538,3540>>, <<3542,3542>>, <<3633,3633>>,
      <<3636,3642>>, <<3654,3662>>, <<3761,3761>>, <<3764,3772>>,
      <<3782,3782>>, <<3784,3790>>, <<3864,3865>>, <<3893,3893>>,
      <<3895,3895>>, <<3897,3897>>, <<3953,3966>>, <<3968,3972>>,
      <<3974,3975>>, <<3981,3991>>, <<3993,4028>>, <<4038,4038>>,
      <<4141,4144>>, <<4146,4151>>, <<4153,4154>>, <<4157,4158>>,
      <<4184,4185>>, <<4190,4192>>, <<4209,4212>>, <<4226,4226>>,
      <<4229,4230>>, <<4237,4237>>, <<4253,4253>>, <<4348,4348>>,
      <<4957,4959>>, <<5906,5908>>, <<5938,5939>>, <<5970,5971>>,
      <<6002,6003>>, <<6068,6069>>, <<6071,6077>>, <<6086,6086>>,
      <<6089,6099>>, <<6103,6103>>, <<6109,6109>>, <<6155,6159>>,
      <<6211,6211>>, <<6277,6278>>, <<6313,6313>>, <<6432,6434>>,
      <<6439,6440>>, <<6450,6450>>, <<6457,6459>>, <<6679,6680>>,
      <<6683,6683>>, <<6742,6742>>, <<6744,6750>>, <<6752,6752>>,
      <<6754,6754>>, <<6757,6764>>, <<6771,6780>>, <<6783,6783>>,
      <<6823,6823>>, <<6832,6877>>, <<6880,6891>>, <<6912,6915>>,
      <<6964,6964>>, <<6966,6970>>, <<6972,6972>>, <<6978,6978>>,
      <<7019,7027>>, <<7040,7041>>, <<7074,7077>>, <<7080,7081>>,
      <<7083,7085>>, <<7142,7142>>, <<7144,7145>>, <<7149,7149>>,
      <<7151,7153>>, <<7212,7219>>, <<7222,7223>>, <<7288,7293>>,
      <<7376,7378>>, <<7380,7392>>, <<7394,7400>>, <<7405,7405>>,
      <<7412,7412>>, <<7416,7417>>, <<7468,7530>>, <<7544,7544>>,
      <<7579,7679>>, <<8125,8125>>, <<8127,8129>>, <<8141,8143>>,
      <<8157,8159>>, <<8173,8175>>, <<8189,8190>>, <<8203,8207>>,
      <<8216,8217>>, <<8228,8228>>, <<8231,8231>>, <<8234,8238>>,
      <<8288,8292>>, <<8294,8303>>, <<8305,8305>>, <<8319,8319>>,
      <<8336,8348>>, <<8400,8432>>, <<11388,11389>>, <<11503,11505>>,
      <<11631,11631>>, <<11647,11647>>, <<11744,11775>>, <<11823,11823>>,
      <<12293,12293>>, <<12330,12333>>, <<12337,12341>>, <<12347,12347>>,
      <<12441,12446>>, <<12540,12542>>, <<40981,40981>>, <<42232,42237>>,
      <<42508,42508>>, <<42607,42610>>, <<42612,42621>>, <<42623,42623>>,
      <<42652,42655>>, <<42736,42737>>, <<42752,42785>>, <<42864,42864>>,
      <<42888,42890>>, <<42993,42996>>, <<43000,43001>>, <<43010,43010>>,
      <<43014,43014>>, <<43019,43019>>, <<43045,43046>>, <<43052,43052>>,
      <<43204,43205>>, <<43232,43249>>, <<43263,43263>>, <<43302,43309>>,
      <<43335,43345>>, <<43392,43394>>, <<43443,43443>>, <<43446,43449>>,
      <<43452,43453>>, <<43471,43471>>, <<43493,43494>>, <<43561,43566>>,
      <<43569,43570>>, <<43573,43574>>, <<43587,43587>>, <<43596,43596>>,
      <<43632,43632>>, <<43644,43644>>, <<43696,43696>>, <<43698,43700>>,
      <<43703,43704>>, <<43710,43711>>, <<43713,43713>>, <<43741,43741>>,
      <<43756,43757>>, <<43763,43764>>, <<43766,43766>>, <<43867,43871>>,
      <<43881,43883>>, <<44005,44005>>, <<44008,44008>>, <<44013,44013>>,
      <<64286,64286>>, <<64434,64450>>, <<65024,65039>>, <<65043,65043>>,
      <<65056,65071>>, <<65106,65106>>, <<65109,65109>>, <<65279,65279>>,
      <<65287,65287>>, <<65294,65294>>, <<65306,65306>>, <<65342,65342>>,
      <<65344,65344>>, <<65392,65392>>, <<65438,65439>>, <<65507,65507>>,
      <<65529,65531>>, <<66045,66045>>, <<66272,66272>>, <<66422,66426>>,
      <<67456,67461>>, <<67463,67504>>, <<67506,67514>>, <<68097,68099>>,
      <<68101,68102>>, <<68108,68111>>, <<68152,68154>>, <<68159,68159>>,
      <<68325,68326>>, <<68900,68903>>, <<68942,68942>>, <<68969,68973>>,
      <<68975,68975>>, <<69291,69292>>, <<69317,69317>>, <<69370,69375>>,
      <<69446,69456>>, <<69506,69509>>, <<69633,69633>>, <<69688,69702>>,
      <<69744,69744>>, <<69747,69748>>, <<69759,69761>>, <<69811,69814>>,
      <<69817,69818>>, <<69821,69821>>, <<69826,69826>>, <<69837,69837>>,
      <<69888,69890>>, <<69927,69931>>, <<69933,69940>>, <<70003,70003>>,
      <<70016,70017>>, <<70070,70078>>, <<70089,70092>>, <<70095,70095>>,
      <<70191,70193>>, <<70196,70196>>, <<70198,70199>>, <<70206,70206>>,
      <<70209,70209>>, <<70367,70367>>, <<70371,70378>>, <<70400,70401>>,
      <<70459,70460>>, <<70464,70464>>, <<70502,70508>>, <<70512,70516>>,
      <<70587,70592>>, <<70606,70606>>, <<70608,70608>>, <<70610,70610>>,
      <<70625,70626>>, <<70712,70719>>, <<70722,70724>>, <<70726,70726>>,
      <<70750,70750>>, <<70835,70840>>, <<70842,70842>>, <<70847,70848>>,
      <<70850,70851>>, <<71090,71093>>, <<71100,71101>>, <<71103,71104>>,
      <<71132,71133>>, <<71219,71226>>, <<71229,71229>>, <<71231,71232>>,
      <<71339,71339>>, <<71341,71341>>, <<71344,71349>>, <<71351,71351>>,
      <<71453,71453>>, <<71455,71455>>, <<71458,71461>>, <<71463,71467>>,
      <<71727,71735>>, <<71737,71738>>, <<71995,71996>>, <<71998,71998>>,
      <<72003,72003>>, <<72148,72151>>, <<72154,72155>>, <<72160,72160>>,
      <<72193,72202>>, <<72243,72248>>, <<72251,72254>>, <<72263,72263>>,
      <<72273,72278>>, <<72281,72283>>, <<72330,72342>>, <<72344,72345>>,
      <<72544,72544>>, <<72546,72548>>, <<72550,72550>>, <<72752,72758>>,
      <<72760,72765>>, <<72767,72767>>, <<72850,72871>>, <<72874,72880>>,
      <<72882,72883>>, <<72885,72886>>, <<73009,73014>>, <<73018,73018>>,
      <<73020,73021>>, <<73023,73029>>, <<73031,73031>>, <<73104,73105>>,
      <<73109,73109>>, <<73111,73111>>, <<73177,73177>>, <<73459,73460>>,
      <<73472,73473>>, <<73526,73530>>, <<73536,73536>>, <<73538,73538>>,
      <<73562,73562>>, <<78896,78912>>, <<78919,78933>>, <<90398,90409>>,
      <<90413,90415>>, <<92912,92916>>, <<92976,92982>>, <<92992,92995>>,
      <<93504,93506>>, <<93547,93548>>, <<94031,94031>>, <<94095,94111>>,
      <<94176,94177>>, <<94179,94180>>, <<94194,94195>>, <<110576,110579>>,
      <<110581,110587>>, <<110589,110590>>, <<113821,113822>>,
      <<113824,113827>>, <<118528,118573>>, <<118576,118598>>,
      <<119143,119145>>, <<119155,119170>>, <<119173,119179>>,
      <<119210,119213>>, <<119362,119364>>, <<121344,121398>>,
      <<121403,121452>>, <<121461,121461>>, <<121476,121476>>,
      <<121499,121503>>, <<121505,121519>>, <<122880,122886>>,
      <<122888,122904>>, <<122907,122913>>, <<122915,122916>>,
      <<122918,122922>>, <<122928,122989>>, <<123023,123023>>,
      <<123184,123197>>, <<123566,123566>>, <<123628,123631>>,
      <<124139,124143>>, <<124398,124399>>, <<124643,124643>>,
      <<124646,124646>>, <<124654,124655>>, <<124661,124661>>,
      <<124671,124671>>, <<125136,125142>>, <<125252,125259>>,
      <<127995,127999>>, <<917505,917505>>, <<917536,917631>>,
      <<917760,917999>> }

CasedRanges ==
    { <<65,90>>, <<97,122>>, <<170,170>>, <<181,181>>, <<186,186>>,
      <<192,214>>, <<216,246>>, <<248,442>>, <<444,447>>, <<452,659>>,
      <<662,687>>, <<880,883>>, <<886,887>>, <<891,893>>, <<895,895>>,
      <<902,902>>, <<904,906>>, <<908,908>>, <<910,929>>, <<931,1013>>,
      <<1015,1153>>, <<1162,1327>>, <<1329,1366>>, <<1376,1416>>,
      <<4256,4293>>, <<4295,4295>>, <<4301,4301>>, <<4304,4346>>,
      <<4349,4351>>, <<5024,5109>>, <<5112,5117>>, <<7296,7306>>,
      <<7312,7354>>, <<7357,7359>>, <<7424,7467>>, <<7531,7543>>,
      <<7545,7578>>, <<7680,7957>>, <<7960,7965>>, <<7968,8005>>,
      <<8008,8013>>, <<8016,8023>>, <<8025,8025>>, <<8027,8027>>,
      <<8029,8029>>, <<8031,8061>>, <<8064,8116>>, <<8118,8124>>,
      <<8126,8126>>, <<8130,8132>>, <<8134,8140>>, <<8144,8147>>,
      <<8150,8155>>, <<8160,8172>>, <<8178,8180>>, <<8182,8188>>,
      <<8450,8450>>, <<8455,8455>>, <<8458,8467>>, <<8469,8469>>,
      <<8473,8477>>, <<8484,8484>>, <<8486,8486>>, <<8488,8488>>,
      <<8490,8493>>, <<8495,8500>>, <<8505,8505>>, <<8508,8511>>,
      <<8517,8521>>, <<8526,8526>>, <<8544,8575>>, <<8579,8580>>,
      <<9398,9449>>, <<11264,11387>>, <<11390,11492>>, <<11499,11502>>,
      <<11506,11507>>, <<11520,11557>>, <<11559,11559>>, <<11565,11565>>,
      <<42560,42605>>, <<42624,42651>>, <<42786,42863>>, <<42865,42887>>,
      <<42891,42894>>, <<42896,42972>>, <<42997,42998>>, <<43002,43002>>,
      <<43824,43866>>, <<43872,43880>>, <<43888,43967>>, <<64256,64262>>,
      <<64275,64279>>, <<65313,65338>>, <<65345,65370>>, <<66560,66639>>,
      <<66736,66771>>, <<66776,66811>>, <<66928,66938>>, <<66940,66954>>,
      <<66956,66962>>, <<66964,66965>>, <<66967,66977>>, <<66979,66993>>,
      <<66995,67001>>, <<67003,67004>>, <<68736,68786>>, <<68800,68850>>,
      <<68944,68965>>, <<68976,68997>>, <<71840,71903>>, <<93760,93823>>,
      <<93856,93880>>, <<93883,93907>>, <<119808,119892>>, <<119894,119964>>,
      <<119966,119967>>, <<119970,119970>>, <<119973,119974>>,
      <<119977,119980>>, <<119982,119993>>, <<119995,119995>>,
      <<119997,120003>>, <<120005,120069>>, <<120071,120074>>,
      <<120077,120084>>, <<120086,120092>>, <<120094,120121>>,
      <<120123,120126>>, <<120128,120132>>, <<120134,120134>>,
      <<120138,120144>>, <<120146,120485>>, <<120488,120512>>,
      <<120514,120538>>, <<120540,120570>>, <<120572,120596>>,
      <<120598,120628>>, <<120630,120654>>, <<120656,120686>>,
      <<120688,120712>>, <<120714,120744>>, <<120746,120770>>,
      <<120772,120779>>, <<122624,122633>>, <<122635,122654>>,
      <<122661,122666>>, <<125184,125251>>, <<127280,127305>>,
      <<127312,127337>>, <<127344,127369>> }

InRanges(c, ranges) == \E r \in ranges : r[1] <= c /\ c <= r[2]

\* The single code point a range table maps c to; c itself when no range
\* holds it.
MapRanges(c, ranges) ==
    LET hit == { r \in ranges : r[1] <= c /\ c <= r[2] /\ (c - r[1]) % r[3] = 0 } IN
    IF hit = {} THEN c
    ELSE LET r == CHOOSE x \in hit : TRUE IN r[4] + (c - r[1])

MapSpecial(c, special, ranges) ==
    LET hit == { e \in special : e[1] = c } IN
    IF hit = {} THEN << MapRanges(c, ranges) >>
    ELSE (CHOOSE e \in hit : TRUE)[2]

\* A string's code points: a high surrogate followed by a low one is one
\* code point, every other code unit is its own.
RECURSIVE CodePoints(_)
CodePoints(str) ==
    IF str = <<>> THEN <<>>
    ELSE IF /\ Len(str) >= 2
            /\ str[1] \in 55296..56319
            /\ str[2] \in 56320..57343
    THEN << 65536 + (str[1] - 55296) * 1024 + (str[2] - 56320) >>
           \o CodePoints(SubSeq(str, 3, Len(str)))
    ELSE << str[1] >> \o CodePoints(Tail(str))

RECURSIVE CodeUnits(_)
CodeUnits(cps) ==
    IF cps = <<>> THEN <<>>
    ELSE (IF Head(cps) >= 65536
          THEN << 55296 + ((Head(cps) - 65536) \div 1024),
                  56320 + ((Head(cps) - 65536) % 1024) >>
          ELSE << Head(cps) >>) \o CodeUnits(Tail(cps))

RECURSIVE UpperAll(_)
UpperAll(cps) ==
    IF cps = <<>> THEN <<>>
    ELSE MapSpecial(Head(cps), UpperSpecial, UpperRanges) \o UpperAll(Tail(cps))

toUpperCase(str) == CodeUnits(UpperAll(CodePoints(str)))

\* A capital sigma is final when a cased letter precedes it and none
\* follows it, case-ignorable code points in between not counted.
CasedAt(cps, j) ==
    InRanges(cps[j], CasedRanges) /\ ~InRanges(cps[j], CaseIgnorableRanges)

FinalSigma(cps, i) ==
    /\ \E j \in 1..(i - 1) :
          /\ CasedAt(cps, j)
          /\ \A k \in (j + 1)..(i - 1) : InRanges(cps[k], CaseIgnorableRanges)
    /\ ~\E j \in (i + 1)..Len(cps) :
          /\ CasedAt(cps, j)
          /\ \A k \in (i + 1)..(j - 1) : InRanges(cps[k], CaseIgnorableRanges)

RECURSIVE LowerFrom(_, _)
LowerFrom(cps, i) ==
    IF i > Len(cps) THEN <<>>
    ELSE (IF cps[i] = 931 /\ FinalSigma(cps, i) THEN << 962 >>
          ELSE MapSpecial(cps[i], LowerSpecial, LowerRanges))
           \o LowerFrom(cps, i + 1)

toLowerCase(str) == CodeUnits(LowerFrom(CodePoints(str), 1))

\* White space and line terminators of ECMAScript, removed by trim.
WhiteSpace ==
    { 9, 10, 11, 12, 13, 32, 160, 5760, 8232, 8233, 8239, 8287, 12288, 65279 }
    \cup 8192..8202

RECURSIVE trimStart(_)
trimStart(str) ==
    IF str # <<>> /\ Head(str) \in WhiteSpace THEN trimStart(Tail(str)) ELSE str

RECURSIVE trimEnd(_)
trimEnd(str) ==
    IF str # <<>> /\ str[Len(str)] \in WhiteSpace
    THEN trimEnd(SubSeq(str, 1, Len(str) - 1)) ELSE str

trim(str) == trimEnd(trimStart(str))

\* str.split('\n')
RECURSIVE split(_)
split(str) ==
    LET breaks == { i \in 1..Len(str) : str[i] = 10 } IN
    IF breaks = {} THEN << str >>
    ELSE LET i == CHOOSE b \in breaks : \A c \in breaks : b <= c IN
         << SubSeq(str, 1, i - 1) >> \o split(SubSeq(str, i + 1, Len(str)))

\* String.prototype.includes
includes(str, sub) ==
    \E k \in 0..(Len(str) - Len(sub)) : SubSeq(str, k + 1, k + Len(sub)) = sub

\* Order of the default Array.prototype.sort on strings: by code units.
RECURSIVE Precedes(_, _)
Precedes(a, b) ==
    IF b = <<>> THEN FALSE
    ELSE IF a = <<>> THEN TRUE
    ELSE IF Head(a) # Head(b) THEN Head(a) < Head(b)
    ELSE Precedes(Tail(a), Tail(b))

RECURSIVE insert(_, _)
insert(x, sorted) ==
    IF sorted = <<>> THEN << x >>
    ELSE IF Precedes(x, Head(sorted)) THEN << x >> \o sorted
    ELSE << Head(sorted) >> \o insert(x, Tail(sorted))

RECURSIVE sort(_)
sort(list) == IF list = <<>> THEN <<>> ELSE insert(Head(list), sort(Tail(list)))

\* lines 109-112: split, trim, drop empty lines and the header, sort
RECURSIVE trimmedLines(_)
trimmedLines(lines) ==
    IF lines = <<>> THEN <<>>
    ELSE LET line == trim(Head(lines)) IN
         (IF line # <<>> /\ line # Str_Name THEN << line >> ELSE <<>>)
           \o trimmedLines(Tail(lines))

printerList(stdout) == sort(trimmedLines(split(stdout)))

\* listWindowsPrinters, lines 95-120: rejects on error and on stderr output.
listWindowsPrinters(outcome) ==
    IF outcome.kind = "stdout"
    THEN [resolved |-> TRUE, printers |-> printerList(outcome.stdout)]
    ELSE [resolved |-> FALSE, printers |-> <<>>]

\* A variant of isMatch with a defect: the comparison is case-sensitive.
isMatchCaseSensitive(printer, name) == includes(printer, name)

\* The predicate of printers.find, lines 161-162.
isMatch(printer, name) == includes(toLowerCase(printer), toLowerCase(name))

\* initPrinter after the listing settled, lines 159-174.
initPrinterListed(outcome) ==
    LET listed == listWindowsPrinters(outcome) IN
    IF /\ listed.resolved
       /\ \E i \in 1..Len(listed.printers) :
              isMatch(listed.printers[i], printEnv.usbName)
    THEN "USB"         \* initWindowsPrinter
    ELSE "NETWORK"     \* initNetworkPrinter

\* initPrinter, line 154
wantsUsb == toUpperCase(printEnv.conn) = Str_USB

Ok200 == [status |-> 200, success |-> TRUE, message |-> "Print job sent successfully"]
Fail500(msg) == [status |-> 500, success |-> FALSE, message |-> msg]

\* Statements that can throw; all of them lie in the try block of lines
\* 183-289, whose catch answers 500 with the error's message.
TrySites == {"body", "build", "execute"}

OnThrow(r, site, msg) ==
    IF site \in TrySites
    THEN /\ responses' = [responses EXCEPT ![r] = Append(@, Fail500(msg))]
         /\ UNCHANGED unhandled
    ELSE /\ unhandled' = unhandled \cup {r}
         /\ UNCHANGED responses

\* line 184: destructuring req.body throws when it is undefined
BodyThrows(body) == body = "undefined"
\* line 205: printData.title throws when printData is undefined
BuildThrows(body) == body # "ticket"

\* A variant of ProceedsAfterCheck with a defect: an unconnected printer
\* ends the request.
ProceedsOnlyIfConnected(result) == result = "true"

\* lines 187-198: a check that throws is logged, a false result is logged;
\* the handler goes on in every case.
ProceedsAfterCheck(result) == TRUE

\* A variant of AfterExecute with a defect: the error of execute is logged
\* and not thrown again.
AfterExecuteSwallowed(ok) == Ok200

\* lines 257-292: the response after execute settled.
AfterExecute(ok) == IF ok THEN Ok200 ELSE Fail500("execute failed")

\* The handler starts (lines 182-186) and runs to its first pending await.
PrintRequest(r, body) ==
    /\ Idle
    /\ expressServer = "listening"
    /\ preq[r].pc = "idle"
    /\ IF BodyThrows(body)
       THEN /\ preq' = [preq EXCEPT ![r] = [@ EXCEPT !.pc = "done", !.body = body]]
            /\ OnThrow(r, "body", "TypeError")
       ELSE /\ preq' = [preq EXCEPT ![r] =
                          IF wantsUsb
                          THEN [@ EXCEPT !.pc = "listing", !.body = body]
                          ELSE [@ EXCEPT !.pc = "checking", !.body = body,
                                         !.printer = "NETWORK"]]
            /\ UNCHANGED << responses, unhandled >>
    /\ UNCHANGED << procVars, startupVars, printEnv, serverVars, wsVars,
                    peers, dataVars, linkVars, sigVars >>

\* The callback of exec (lines 97-118) and the rest of initPrinter.
PrintListed(r, outcome) ==
    /\ Idle
    /\ preq[r].pc = "listing"
    /\ preq' = [preq EXCEPT ![r] = [@ EXCEPT !.pc = "checking",
                                             !.listing = outcome,
                                             !.printer = initPrinterListed(outcome)]]
    /\ UNCHANGED << procVars, startupVars, printEnv, responses, unhandled,
                    serverVars, wsVars, peers, dataVars, linkVars, sigVars >>

\* isPrinterConnected settled (lines 188-198); the ticket is built (lines
\* 200-255) and execute is called (line 258).
PrintChecked(r, result) ==
    /\ Idle
    /\ preq[r].pc = "checking"
    /\ IF ~ProceedsAfterCheck(result)
       THEN /\ preq' = [preq EXCEPT ![r] = [@ EXCEPT !.pc = "done",
                                                    !.isConnected = result]]
            /\ OnThrow(r, "build", "Printer is not connected")
       ELSE IF BuildThrows(preq[r].body)
       THEN /\ preq' = [preq EXCEPT ![r] = [@ EXCEPT !.pc = "done",
                                                    !.isConnected = result]]
            /\ OnThrow(r, "build", "TypeError")
       ELSE /\ preq' = [preq EXCEPT ![r] = [@ EXCEPT !.pc = "executing",
                                                    !.isConnected = result,
                                                    !.built = TRUE]]
            /\ UNCHANGED << responses, unhandled >>
    /\ UNCHANGED << procVars, startupVars, printEnv, serverVars, wsVars,
                    peers, dataVars, linkVars, sigVars >>

\* execute settled (lines 257-292).
PrintExecuted(r, ok) ==
    /\ Idle
    /\ preq[r].pc = "executing"
    /\ preq' = [preq EXCEPT ![r] = [@ EXCEPT !.pc = "done",
                                             !.executed = IF ok THEN "ok" ELSE "failed"]]
    /\ IF AfterExecute(ok).status = 200
       THEN /\ responses' = [responses EXCEPT ![r] = Append(@, AfterExecute(ok))]
            /\ UNCHANGED unhandled
       ELSE OnThrow(r, "execute", AfterExecute(ok).message)
    /\ UNCHANGED << procVars, startupVars, printEnv, serverVars, wsVars,
                    peers, dataVars, linkVars, sigVars >>


(***************************************************************************)
(* Specifications.                                                         *)
(***************************************************************************)
\* The whole program: the script, then every event the event loop can
\* dispatch.
Next ==
    \/ StmtCheckHostIP
    \/ StmtCreateRfidWss
    \/ StmtCreateWeightWss
    \/ StmtCreateRfidServer
    \/ StmtCreateWeightClient
    \/ StmtListenRfid
    \/ StmtListenExpress
    \/ StmtConnectWeightScale
    \/ StmtRegisterHandlers
    \/ ServerError
    \/ UnhandledServerError
    \/ \E s \in Sessions, ch \in Channels : WsConnect(s, ch)
    \/ \E s \in Sessions : WsClosing(s)
    \/ \E s \in Sessions : WsInvalidFrame(s)
    \/ \E s \in Sessions : WsClose(s)
    \/ \E p \in Peers : RfidAccept(p)
    \/ \E p \in Peers, d \in DeviceChunks : RfidData(p, d)
    \/ \E p \in Peers : RfidEnd(p)
    \/ \E p \in Peers : RfidError(p)
    \/ \E p \in Peers : RfidClosed(p)
    \/ WeightConnected
    \/ \E d \in DeviceChunks : WeightData(d)
    \/ WeightFault
    \/ WeightPeerEnd
    \/ WeightErrorEvent
    \/ WeightCloseEvent
    \/ Tick
    \/ TimerFire
    \/ \E r \in Requests, body \in Bodies : PrintRequest(r, body)
    \/ \E r \in Requests, outcome \in ExecOutcomes : PrintListed(r, outcome)
    \/ \E r \in Requests, result \in {"true", "false", "throws"} : PrintChecked(r, result)
    \/ \E r \in Requests, ok \in BOOLEAN : PrintExecuted(r, ok)
    \/ Sigint

Spec == Init /\ [][Next]_vars

\* The three parts of the program share no state beyond the process itself
\* (phase, pendingErr, handlers, sigint, the servers): the subscribers and
\* RFID peers, the weight link, and the print endpoint each read and write
\* variables that the steps of the other two leave unchanged and do not
\* read.  Each part is explored with the script, the bind errors and SIGINT.
\* One step of the subscribers writes process state: WsInvalidFrame ends the
\* process.  The fan-out and the weight link are explored with it; the print
\* endpoint is not, its properties being about the requests the handler has
\* finished.

\* The fan-out: subscribers, RFID peers and the weight socket while it is
\* connected.  Left out: the failures and reconnects of the weight link
\* (they change wc, wcHandles and timers only) and the print endpoint.
FanoutNext ==
    \/ StmtCheckHostIP
    \/ StmtCreateRfidWss
    \/ StmtCreateWeightWss
    \/ StmtCreateRfidServer
    \/ StmtCreateWeightClient
    \/ StmtListenRfid
    \/ StmtListenExpress
    \/ StmtConnectWeightScale
    \/ StmtRegisterHandlers
    \/ ServerError
    \/ UnhandledServerError
    \/ \E s \in Sessions, ch \in Channels : WsConnect(s, ch)
    \/ \E s \in Sessions : WsClosing(s)
    \/ \E s \in Sessions : WsInvalidFrame(s)
    \/ \E s \in Sessions : WsClose(s)
    \/ \E p \in Peers : RfidAccept(p)
    \/ \E p \in Peers, d \in DeviceChunks : RfidData(p, d)
    \/ \E p \in Peers : RfidEnd(p)
    \/ \E p \in Peers : RfidError(p)
    \/ \E p \in Peers : RfidClosed(p)
    \/ WeightConnected
    \/ \E d \in DeviceChunks : WeightData(d)
    \/ Sigint

FanoutSpec == BridgeInit /\ [][FanoutNext]_vars

\* The event loop runs every callback that is ready: the script's
\* statements, queued 'error' events, the socket's own 'error' and 'close'
\* events, the clock and due timers.
Fairness ==
    /\ WF_vars(StmtCheckHostIP)
    /\ WF_vars(StmtCreateRfidWss)
    /\ WF_vars(StmtCreateWeightWss)
    /\ WF_vars(StmtCreateRfidServer)
    /\ WF_vars(StmtCreateWeightClient)
    /\ WF_vars(StmtListenRfid)
    /\ WF_vars(StmtListenExpress)
    /\ WF_vars(StmtConnectWeightScale)
    /\ WF_vars(StmtRegisterHandlers)
    /\ WF_vars(ServerError)
    /\ WF_vars(UnhandledServerError)
    /\ WF_vars(WeightErrorEvent)
    /\ WF_vars(WeightCloseEvent)
    /\ WF_vars(Tick)
    /\ WF_vars(TimerFire)

\* The weight link: the weight socket, its failures, the timers, and the
\* subscribers, whose invalid frame ends the process.  Left out: RFID peers
\* and the print endpoint (their steps leave the process running and the
\* link, the subscribers and the timers unchanged).
LinkNext ==
    \/ StmtCheckHostIP
    \/ StmtCreateRfidWss
    \/ StmtCreateWeightWss
    \/ StmtCreateRfidServer
    \/ StmtCreateWeightClient
    \/ StmtListenRfid
    \/ StmtListenExpress
    \/ StmtConnectWeightScale
    \/ StmtRegisterHandlers
    \/ ServerError
    \/ UnhandledServerError
    \/ \E s \in Sessions, ch \in Channels : WsConnect(s, ch)
    \/ \E s \in Sessions : WsClosing(s)
    \/ \E s \in Sessions : WsInvalidFrame(s)
    \/ \E s \in Sessions : WsClose(s)
    \/ WeightConnected
    \/ \E d \in DeviceChunks : WeightData(d)
    \/ WeightFault
    \/ WeightPeerEnd
    \/ WeightErrorEvent
    \/ WeightCloseEvent
    \/ Tick
    \/ TimerFire
    \/ Sigint

LinkSpec == BridgeInit /\ [][LinkNext]_vars /\ Fairness

\* The print endpoint: print requests under each printer configuration.
\* Left out: subscribers, RFID peers and the weight link's events.
PrintNext ==
    \/ StmtCheckHostIP
    \/ StmtCreateRfidWss
    \/ StmtCreateWeightWss
    \/ StmtCreateRfidServer
    \/ StmtCreateWeightClient
    \/ StmtListenRfid
    \/ StmtListenExpress
    \/ StmtConnectWeightScale
    \/ StmtRegisterHandlers
    \/ ServerError
    \/ UnhandledServerError
    \/ \E r \in Requests, body \in Bodies : PrintRequest(r, body)
    \/ \E r \in Requests, outcome \in ExecOutcomes : PrintListed(r, outcome)
    \/ \E r \in Requests, result \in {"true", "false", "throws"} : PrintChecked(r, result)
    \/ \E r \in Requests, ok \in BOOLEAN : PrintExecuted(r, ok)
    \/ Sigint

PrintSpec == Init /\ [][PrintNext]_vars


(***************************************************************************)
(* Properties.                                                             *)
(***************************************************************************)
WellFormedUtf8(data) ==
    \A i \in 1..Len(toString(data)) : toString(data)[i] # ReplacementChar

\* C1: the N chunks received on a channel's device socket give exactly N
\* broadcast calls, and the i-th call carries the i-th chunk: the bytes of
\* the i-th payload are the bytes of the i-th chunk.  The handlers of lines
\* 299-303 and 323-327 broadcast data.toString() instead, which replaces a
\* malformed or cut byte sequence by U+FFFD.
C1_PayloadIsChunk ==
    \A ch \in Channels :
        /\ Len(bcast[ch]) = Len(recv[ch])
        /\ \A i \in 1..Len(recv[ch]) :
               i <= Len(bcast[ch]) => Utf8Encode(bcast[ch][i]) = recv[ch][i]

\* C1 witness: the RFID channel has received two different chunks, the first
\* cut inside a character and the second well-formed; two broadcast calls
\* were made, and the first payload does not have the bytes of its chunk.
C1_Witness ==
    /\ Len(recv["RFID"]) = 2
    /\ Len(bcast["RFID"]) = 2
    /\ recv["RFID"][1] # recv["RFID"][2]
    /\ ~WellFormedUtf8(recv["RFID"][1])
    /\ WellFormedUtf8(recv["RFID"][2])
    /\ Utf8Encode(bcast["RFID"][1]) # recv["RFID"][1]
    /\ Utf8Encode(bcast["RFID"][2]) = recv["RFID"][2]

\* C2: a broadcast call with payload m on a channel sends exactly one frame m
\* to each session that is in the channel's client set and OPEN at the call,
\* sends nothing to any other session, and no step other than a broadcast
\* call sends anything (nothing is queued for later delivery).
C2_BroadcastToOpenClients ==
    /\ [][\A ch \in Channels :
            bcast'[ch] # bcast[ch] =>
              /\ Len(bcast'[ch]) = Len(bcast[ch]) + 1
              /\ \A s \in Sessions :
                   sent'[s] = IF s \in clients[ch] /\ readyState[s] = "OPEN"
                              THEN Append(sent[s], bcast'[ch][Len(bcast'[ch])])
                              ELSE sent[s]]_vars
    /\ [][bcast' = bcast => sent' = sent]_vars

\* C2 witness: two sessions of one channel, both sent the first payload; the
\* second payload was broadcast while one of them was CLOSING and went to the
\* OPEN one only.
C2_Witness ==
    \E ch \in Channels : \E s, t \in clients[ch] :
        /\ readyState[s] = "OPEN"
        /\ readyState[t] = "CLOSING"
        /\ Len(bcast[ch]) = 2
        /\ sent[s] = bcast[ch]
        /\ sent[t] = << bcast[ch][1] >>

\* C3: once a session is unsubscribed (CLOSED and out of the client set), no
\* later step sends it a frame.
C3_NoSendAfterUnsubscribe ==
    [][\A s \in Sessions :
         (readyState[s] = "CLOSED" /\ \A ch \in Channels : s \notin clients[ch])
            => sent'[s] = sent[s]]_vars

\* C3 witness: A and B subscribed to Weight, both were sent the first
\* payload, A disconnected, and the second payload went to B only.
C3_Witness ==
    /\ sessionChan["A"] = "Weight"
    /\ sessionChan["B"] = "Weight"
    /\ readyState["A"] = "CLOSED"
    /\ readyState["B"] = "OPEN"
    /\ Len(bcast["Weight"]) = 2
    /\ sent["A"] = << bcast["Weight"][1] >>
    /\ sent["B"] = bcast["Weight"]


\* C4: at most one reconnect timer is pending in every state; the 'close'
\* event of the weight socket arms exactly one timer, with the 5000 ms
\* delay; and a timer fires only when 5000 ms have passed since it was armed.
C4_OneReconnectPerClose ==
    /\ [](Len(timers) <= 1)
    /\ [][(wc # "closed" /\ wc' = "closed") =>
            /\ Len(timers') = Len(timers) + 1
            /\ timers'[Len(timers')] = [delay |-> 5000, elapsed |-> 0]]_vars
    /\ [][Len(timers') > Len(timers) => (wc # "closed" /\ wc' = "closed")]_vars
    /\ [][Len(timers') < Len(timers) => Head(timers).elapsed >= 5000]_vars

\* C4 witness: the socket has closed and its one reconnect timer has run its
\* full delay and is about to fire.
C4_Witness ==
    /\ phase = "running"
    /\ wc = "closed"
    /\ Len(timers) = 1
    /\ timers[1].elapsed = 5000

\* C5: the weight link never has more than one live TCP handle, a handle is
\* live exactly while the socket is connecting or connected, the timer
\* callback calls connectWeightScale only on a fully closed socket, and a
\* timer is armed only by the step that completes the close.
C5_OneLiveSocket ==
    /\ [](wcHandles <= 1 /\ (wcHandles = 1 <=> WcLive(wc)))
    /\ [][Len(timers') < Len(timers) =>
            (wc = "closed" /\ wcHandles = 0 /\ wc' = "connecting")]_vars
    /\ [][Len(timers') > Len(timers) => (wc' = "closed" /\ wcHandles' = 0)]_vars

\* C5 witness: the link is connecting again after an earlier connection that
\* delivered data was closed.
C5_Witness ==
    /\ wc = "connecting"
    /\ wcHandles = 1
    /\ timers = <<>>
    /\ Len(recv["Weight"]) >= 1

\* C6: while no shutdown has been signalled, a weight socket that failed or
\* closed (in any round) is eventually connecting again; and the 'error'
\* event of the socket is handled without ending the process.  The link's
\* own handlers do this, but the process can end without a shutdown signal
\* while a reconnect is pending: a subscriber's invalid frame raises an
\* 'error' event no one listens to (WsInvalidFrame), and no connect attempt
\* follows.
C6_LinkSelfHeals ==
    /\ \A st \in {"faulted", "closing", "closed"} :
         (phase = "running" /\ wc = st) ~> (wc = "connecting" \/ sigint)
    /\ [][(wc = "faulted" /\ wc' = "closing") =>
            (phase' = "running" /\ exitCode' = -1)]_vars

\* C6 witness: a connection that delivered data has closed and its
\* reconnect timer is pending; no shutdown was signalled, and the process
\* has ended with exit code 1 on the invalid frame of subscriber A.
C6_Witness ==
    /\ phase = "exited"
    /\ exitCode = 1
    /\ ~sigint
    /\ readyState["A"] = "CLOSING"
    /\ wc = "closed"
    /\ Len(timers) = 1
    /\ timers[1].elapsed < timers[1].delay
    /\ Len(recv["Weight"]) >= 1

\* C7 (as stated): when the bind of the RFID listener port or of a WebSocket
\* port has failed, the process has terminated with a fatal error once the
\* failure was processed; it never serves events with a failed server.
C7_BindFailureIsFatal ==
    /\ (errLogged # {} => (phase = "exited" /\ exitCode > 0))
    /\ (Idle => (rfidServer # "bindFailed"
                 /\ \A ch \in Channels : wssState[ch] # "bindFailed"))

\* C8: once SIGINT has been handled no timer is armed, no timer fires and no
\* connect attempt starts; the SIGINT step itself arms no timer and leaves
\* the weight socket neither connecting nor connected.
C8_NoReconnectAfterSigint ==
    /\ [][sigint =>
            /\ Len(timers') = Len(timers)
            /\ ~(wc' = "connecting" /\ wc # "connecting")
            /\ wcHandles' <= wcHandles]_vars
    /\ [][(~sigint /\ sigint') =>
            /\ Len(timers') = Len(timers)
            /\ ~WcLive(wc')
            /\ wcHandles' = 0]_vars

\* C8 witness: SIGINT was handled while a reconnect timer was pending and
\* due; the timer is still there and the socket is still closed.
C8_Witness ==
    /\ sigint
    /\ wc = "closed"
    /\ Len(timers) = 1
    /\ timers[1].elapsed >= timers[1].delay

StepIndex(log, stmt) ==
    IF \E i \in 1..Len(log) : log[i] = stmt
    THEN CHOOSE i \in 1..Len(log) : log[i] = stmt
    ELSE 0

\* C9 (as stated): after SIGINT the handler has closed the RFID listener,
\* then the weight link, then both broadcasters, then reached process.exit,
\* and the process ended through that exit (code 0), no statement throwing.
C9_ShutdownRunsToExit ==
    sigint =>
        /\ StepIndex(shutdownLog, "rfidServer.close") = 1
        /\ StepIndex(shutdownLog, "weightClient.destroy") = 2
        /\ StepIndex(shutdownLog, "rfidWss.close") > 2
        /\ StepIndex(shutdownLog, "weightWss.close") > 2
        /\ StepIndex(shutdownLog, "process.exit") = Len(shutdownLog)
        /\ StepIndex(shutdownLog, "process.exit") > StepIndex(shutdownLog, "rfidWss.close")
        /\ StepIndex(shutdownLog, "process.exit") > StepIndex(shutdownLog, "weightWss.close")
        /\ phase = "exited"
        /\ exitCode = 0

WssCreated == \A ch \in Channels : wssState[ch] # "none"

\* C10: whenever the RFID listener has been told to listen, whenever a
\* connect attempt to the weight scale has been made, and whenever a chunk
\* has been received or broadcast, both WebSocket servers have been created.
C10_BroadcastersFirst ==
    /\ rfidServer \in {"listening", "bindFailed", "closed"} => WssCreated
    /\ wc \notin {"none", "new"} => WssCreated
    /\ (\E ch \in Channels : recv[ch] # <<>> \/ bcast[ch] # <<>>) => WssCreated

\* C10 witness: both devices have delivered a chunk and both WebSocket
\* servers are listening.
C10_Witness ==
    /\ \A ch \in Channels : wssState[ch] = "listening"
    /\ Len(bcast["RFID"]) = 1
    /\ Len(bcast["Weight"]) = 1


OtherChannel(ch) == IF ch = "RFID" THEN "Weight" ELSE "RFID"

\* C11: a chunk received on one channel's device is broadcast on that
\* channel only and is sent to no session the other channel's server
\* accepted; a session receives frames only in a step that receives a chunk
\* on its own channel; and no session is in both client sets.
C11_ChannelsIsolated ==
    /\ [](clients["RFID"] \cap clients["Weight"] = {})
    /\ [](\A ch \in Channels : \A s \in clients[ch] : sessionChan[s] = ch)
    /\ [][\A ch \in Channels :
            recv'[ch] # recv[ch] =>
              /\ bcast'[OtherChannel(ch)] = bcast[OtherChannel(ch)]
              /\ \A s \in Sessions :
                   sessionChan[s] # ch => sent'[s] = sent[s]]_vars
    /\ [][\A s \in Sessions :
            sent'[s] # sent[s] =>
              /\ sessionChan[s] \in Channels
              /\ recv'[sessionChan[s]] # recv[sessionChan[s]]]_vars

\* C11 witness: A subscribed to RFID and B to Weight, both OPEN; each device
\* delivered one chunk, the two payloads differ, and each session was sent
\* the payload of its own channel only.
C11_Witness ==
    /\ sessionChan["A"] = "RFID"
    /\ sessionChan["B"] = "Weight"
    /\ readyState["A"] = "OPEN"
    /\ readyState["B"] = "OPEN"
    /\ Len(bcast["RFID"]) = 1
    /\ Len(bcast["Weight"]) = 1
    /\ bcast["RFID"][1] # bcast["Weight"][1]
    /\ sent["A"] = bcast["RFID"]
    /\ sent["B"] = bcast["Weight"]


(***************************************************************************)
(* C12: simultaneously connected RFID peers are independent.  A step in    *)
(* which an accepted peer socket has its 'end' or 'error' leaves every     *)
(* other peer socket as it was, leaves the listener as it was, starts no   *)
(* timer and no outbound connect, and broadcasts nothing; the failed peer  *)
(* is never put back by the process (it is open again only after its       *)
(* socket was released and a new connection accepted); a peer that is open *)
(* stays open through every step that is not its own event or the end of   *)
(* the process, and every chunk received appends exactly one broadcast,    *)
(* the decoded chunk.                                                      *)
(***************************************************************************)
PeerGone(p) == peers[p] = "open" /\ peers'[p] # "open"

C12_PeersIndependent ==
    /\ [][\A p \in Peers :
            PeerGone(p) =>
              /\ peers'[p] = "ended"
              /\ \A q \in Peers \ {p} : peers'[q] = peers[q]
              /\ rfidServer' = rfidServer
              /\ timers' = timers /\ wc' = wc /\ wcHandles' = wcHandles
              /\ recv' = recv /\ bcast' = bcast]_vars
    /\ [][\A p \in Peers :
            /\ peers[p] = "ended" => peers'[p] \in {"ended", "none"}
            /\ peers'[p] = "open" => peers[p] \in {"open", "none"}]_vars
    /\ [][recv'["RFID"] # recv["RFID"] =>
            /\ \E p \in Peers : peers[p] = "open"
            /\ peers' = peers
            /\ bcast'["RFID"] =
                 Append(bcast["RFID"],
                        toString(recv'["RFID"][Len(recv'["RFID"])]))]_vars

\* P1 and P2 were connected together and P1 has had its 'end' or 'error'
\* (its socket has not closed yet): P2 is open, the listener listens, the
\* process is idle and has room for the next chunk of P2.
C12_Witness ==
    /\ peers["P1"] = "ended"
    /\ peers["P2"] = "open"
    /\ rfidServer = "listening"
    /\ Idle
    /\ DataBudget
    /\ Len(bcast["RFID"]) >= 1

(***************************************************************************)
(* C13: a broadcast call leaves the subscriber sets unchanged.  A session  *)
(* enters wss.clients only in the step of its handshake and leaves it only *)
(* in the step of its own 'close' event, never in a step that broadcasts;  *)
(* a session whose socket failed (CLOSING) stays in the set, skipped by    *)
(* broadcasts, until that event.                                           *)
(***************************************************************************)
C13_BroadcastKeepsSubscribers ==
    /\ [][bcast' # bcast => clients' = clients /\ readyState' = readyState]_vars
    /\ [][\A ch \in Channels : \A s \in Sessions :
            /\ (s \in clients'[ch] /\ s \notin clients[ch]) =>
                  readyState[s] = "NONE" /\ readyState'[s] = "OPEN"
            /\ (s \in clients[ch] /\ s \notin clients'[ch]) =>
                  readyState[s] # "CLOSED" /\ readyState'[s] = "CLOSED"]_vars
    /\ [](\A s \in Sessions :
            readyState[s] \in {"OPEN", "CLOSING"} => s \in clients[sessionChan[s]])

\* Session A took the first broadcast of its channel, its socket then failed
\* and a second broadcast skipped it: it is still in the subscriber set.
C13_Witness ==
    /\ readyState["A"] = "CLOSING"
    /\ sessionChan["A"] = "Weight"
    /\ "A" \in clients["Weight"]
    /\ Len(bcast["Weight"]) = 2
    /\ sent["A"] = << bcast["Weight"][1] >>


(***************************************************************************)
(* C14: no frame on connect and no retroactive delivery.                   *)
(***************************************************************************)
LastChunk(rcv, ch) == rcv[ch][Len(rcv[ch])]

\* The part of C14 that does not depend on the payload: the handshake step
\* sends nothing, and a frame is sent to a session only in a step in which
\* its channel receives exactly one chunk while the session is subscribed
\* and OPEN, one frame for that chunk.
FramesOnlyForLiveChunks ==
    \A s \in Sessions :
        /\ (readyState[s] = "NONE" /\ readyState'[s] = "OPEN") =>
               sent[s] = <<>> /\ sent'[s] = <<>>
        /\ sent'[s] # sent[s] =>
               /\ readyState[s] = "OPEN"
               /\ sessionChan[s] \in Channels
               /\ s \in clients[sessionChan[s]]
               /\ recv'[sessionChan[s]] # recv[sessionChan[s]]
               /\ Len(recv'[sessionChan[s]]) = Len(recv[sessionChan[s]]) + 1
               /\ Len(sent'[s]) = Len(sent[s]) + 1
               /\ \A i \in 1..Len(sent[s]) : sent'[s][i] = sent[s][i]

\* C14: a session is sent no frame on connect, and every frame it receives
\* equals a chunk that arrived from its channel's device while it was
\* subscribed and OPEN: the bytes of the frame are the bytes of the chunk
\* received in the step that sent it.  The frame is data.toString() of the
\* chunk (lines 300 and 324), so a chunk cut inside a character arrives with
\* other bytes.
C14_FrameEqualsLiveChunk ==
    [][/\ FramesOnlyForLiveChunks
       /\ \A s \in Sessions :
             sent'[s] # sent[s] =>
               Utf8Encode(sent'[s][Len(sent'[s])]) = LastChunk(recv', sessionChan[s])]_vars

\* C14 witness: session A completed its handshake after the first Weight
\* chunk had been broadcast and has been sent a frame for the second chunk
\* only; that chunk was cut inside a character and the frame does not have
\* its bytes.
C14_Witness ==
    /\ readyState["A"] = "OPEN"
    /\ sessionChan["A"] = "Weight"
    /\ Len(recv["Weight"]) = 2
    /\ Len(bcast["Weight"]) = 2
    /\ bcast["Weight"][1] # bcast["Weight"][2]
    /\ sent["A"] = << bcast["Weight"][2] >>
    /\ Utf8Encode(sent["A"][1]) # recv["Weight"][2]


(***************************************************************************)
(* C15: a subscriber that stays OPEN receives one frame per chunk of its   *)
(* channel, in arrival order, and subscribers OPEN together receive the    *)
(* same frames.                                                            *)
(***************************************************************************)
OpenOn(s, ch) == readyState[s] = "OPEN" /\ sessionChan[s] = ch

\* frames are the last Len(frames) elements of seq, each related by Same
IsTail(frames, seq, Same(_, _)) ==
    /\ Len(frames) <= Len(seq)
    /\ \A i \in 1..Len(frames) :
           Same(frames[i], seq[Len(seq) - Len(frames) + i])

SameValue(frame, other) == frame = other
SameBytes(frame, chunk) == Utf8Encode(frame) = chunk

\* Subscribers OPEN together: the one that subscribed later has the tail of
\* the other's frames.
SameFramesWhileOpen ==
    \A ch \in Channels : \A s, t \in Sessions :
        (OpenOn(s, ch) /\ OpenOn(t, ch)) =>
            \/ IsTail(sent[s], sent[t], SameValue)
            \/ IsTail(sent[t], sent[s], SameValue)

\* C15: the frames of a subscriber that has stayed OPEN are exactly the
\* chunks its channel received since it subscribed, in arrival order, one
\* frame per chunk (the bytes of the i-th frame are the bytes of the i-th
\* such chunk); subscribers OPEN together have the same frames.  The frames
\* are data.toString() of the chunks (lines 300 and 324): a chunk cut inside
\* a character is sent with other bytes.
C15_FramesAreChunks ==
    /\ \A ch \in Channels : \A s \in Sessions :
          OpenOn(s, ch) => IsTail(sent[s], recv[ch], SameBytes)
    /\ SameFramesWhileOpen

\* C15 witness: sessions A and B have both been OPEN on the Weight channel
\* while it received two different chunks: each has two frames, in order,
\* the same for both, and the frame of the chunk cut inside a character does
\* not have that chunk's bytes.
C15_Witness ==
    /\ OpenOn("A", "Weight") /\ OpenOn("B", "Weight")
    /\ Len(recv["Weight"]) = 2
    /\ recv["Weight"][1] # recv["Weight"][2]
    /\ Len(sent["A"]) = 2
    /\ sent["B"] = sent["A"]
    /\ SameBytes(sent["A"][1], recv["Weight"][1])
    /\ ~SameBytes(sent["A"][2], recv["Weight"][2])


(***************************************************************************)
(* C16: every print request that the handler has finished has exactly one  *)
(* response and none has more; the response is 200 with success = TRUE     *)
(* exactly when execute resolved, and otherwise 500 with success = FALSE   *)
(* and the message of the error (undefined body, missing printData,        *)
(* execute failure); no handler rejects.                                   *)
(***************************************************************************)
Done(r) == preq[r].pc = "done"

C16_OneResponse ==
    /\ unhandled = {}
    /\ \A r \in Requests :
          /\ Len(responses[r]) = (IF Done(r) THEN 1 ELSE 0)
          /\ Done(r) =>
                LET resp == responses[r][1] IN
                /\ resp.status \in {200, 500}
                /\ resp.status = 200 <=> preq[r].executed = "ok"
                /\ resp.status = 200 =>
                      /\ resp.success
                      /\ preq[r].body = "ticket" /\ preq[r].built
                /\ resp.status = 500 =>
                      /\ ~resp.success
                      /\ resp.message =
                            (IF preq[r].executed = "failed"
                             THEN "execute failed" ELSE "TypeError")
                      /\ preq[r].executed = "no" => preq[r].body # "ticket"

\* One request was answered 200 after execute resolved, the other 500 after
\* execute rejected.
C16_Witness ==
    /\ Done("r1") /\ preq["r1"].executed = "ok"
    /\ responses["r1"] = << Ok200 >>
    /\ Done("r2") /\ preq["r2"].executed = "failed"
    /\ responses["r2"] = << Fail500("execute failed") >>

(***************************************************************************)
(* C17: the start-up host-IP gate.  On a host with no non-internal IPv4    *)
(* interface at REQUIRED_HOST_IP the first step of the process is its exit *)
(* with status 1, and no WebSocket server, TCP listener, HTTP server or    *)
(* weight-scale connect attempt ever exists; on a host with such an        *)
(* interface the first step moves on to the rest of the script.            *)
(***************************************************************************)
MatchingInterfaces ==
    { i \in 1..Len(interfaces) :
        interfaces[i] = Iface("IPv4", FALSE, REQUIRED_HOST_IP) }

NothingCreated ==
    /\ \A ch \in Channels : wssState[ch] = "none"
    /\ rfidServer = "none"
    /\ expressServer = "none"
    /\ wc = "none" /\ wcHandles = 0 /\ timers = <<>>

C17_HostGate ==
    /\ [](MatchingInterfaces = {} =>
            /\ NothingCreated
            /\ phase \in {"script", "exited"}
            /\ phase = "exited" => exitCode = 1)
    /\ [][(phase = "script" /\ ip = 1) =>
            IF MatchingInterfaces = {}
            THEN phase' = "exited" /\ exitCode' = 1 /\ NothingCreated'
            ELSE phase' = "script" /\ ip' = 2 /\ exitCode' = -1]_vars

\* The host's only entry with the required address is an internal one (its
\* other entry is IPv6): the process has exited with status 1 at the gate.
C17_Witness ==
    /\ \E i \in 1..Len(interfaces) :
          interfaces[i].address = REQUIRED_HOST_IP /\ interfaces[i].internal
    /\ MatchingInterfaces = {}
    /\ phase = "exited"
    /\ exitCode = 1
    /\ NothingCreated


(***************************************************************************)
(* C18: initPrinter always resolves to a printer.  It is the USB printer   *)
(* exactly when PRINTER_CONNECTION is USB (in any letter case), the        *)
(* listing succeeded and one of the listed printers has a name that        *)
(* includes PRINTER_USB_NAME without regard to letter case; in every other *)
(* case it is the network printer.  The step in which the listing settles  *)
(* moves the handler on to the connectivity check and answers nothing.     *)
(***************************************************************************)
\* The letters of the model's printer names and settings, each with its
\* other case: A-Z with a-z, and \u00C9 with \u00E9.
SameLetter(c, d) ==
    \/ c = d
    \/ \E u \in (65..90) \cup {201} : {c, d} = {u, u + 32}

IncludesIgnoringCase(str, sub) ==
    \E k \in 0..(Len(str) - Len(sub)) :
        \A j \in 1..Len(sub) : SameLetter(str[k + j], sub[j])

\* The spellings of USB: each letter in either case, the long s (U+017F)
\* being a lower-case s.
UsbSpellings ==
    { << u, s, b >> : u \in {85, 117}, s \in {83, 115, 383}, b \in {66, 98} }

ConnectionIsUsb == printEnv.conn \in UsbSpellings

\* The host has a printer whose listing is this stdout and whose name matches.
ListsMatchingPrinter(outcome) ==
    /\ outcome.kind = "stdout"
    /\ \E names \in HostPrinters :
          /\ WmicOutput(names) = outcome.stdout
          /\ \E i \in 1..Len(names) : IncludesIgnoringCase(names[i], printEnv.usbName)

InitPrinterReturned(r) ==
    preq[r].pc \in {"checking", "executing", "done"} /\ preq[r].body # "undefined"

C18_InitPrinterResolves ==
    /\ [](\A r \in Requests :
            InitPrinterReturned(r) =>
               preq[r].printer =
                  (IF ConnectionIsUsb /\ ListsMatchingPrinter(preq[r].listing)
                   THEN "USB" ELSE "NETWORK"))
    /\ [](unhandled = {})
    /\ [][\A r \in Requests :
            (preq[r].pc = "listing" /\ preq'[r].pc # "listing") =>
               /\ preq'[r].pc = "checking"
               /\ responses'[r] = responses[r]]_vars

\* PRINTER_CONNECTION is 'usb' and PRINTER_USB_NAME 'tm-t81': one request
\* found 'EPSON TM-T81 Receipt' in the listing and has the USB printer, the
\* other saw the listing fail and has the network printer.
C18_Witness ==
    /\ printEnv.conn = Str_usb
    /\ InitPrinterReturned("r1")
    /\ preq["r1"].listing.kind = "stdout"
    /\ preq["r1"].printer = "USB"
    /\ InitPrinterReturned("r2")
    /\ preq["r2"].listing.kind = "error"
    /\ preq["r2"].printer = "NETWORK"

(***************************************************************************)
(* C19: the connectivity check never ends a request.  Whatever the check   *)
(* gives (true, false or an exception), the step in which it settles       *)
(* builds the ticket and calls execute whenever the request has a ticket,  *)
(* and fails only on building; finished requests with the same body and    *)
(* the same outcome of execute have the same response, whatever their      *)
(* checks gave.                                                            *)
(***************************************************************************)
C19_CheckNeverAborts ==
    /\ [][\A r \in Requests :
            (preq[r].pc = "checking" /\ preq'[r].pc # "checking") =>
               IF preq[r].body = "ticket"
               THEN /\ preq'[r].pc = "executing"
                    /\ preq'[r].built
                    /\ responses'[r] = <<>>
               ELSE /\ preq'[r].pc = "done"
                    /\ responses'[r] = << Fail500("TypeError") >>]_vars
    /\ [](\A r, t \in Requests :
            (/\ Done(r) /\ Done(t)
             /\ preq[r].body = preq[t].body
             /\ preq[r].executed = preq[t].executed) =>
               responses[r] = responses[t])
    /\ [](\A r \in Requests :
            (Done(r) /\ preq[r].isConnected # "unknown" /\ preq[r].body = "ticket") =>
               /\ preq[r].built
               /\ preq[r].executed # "no"
               /\ responses[r][1].status = 200 <=> preq[r].executed = "ok")

\* Both requests were answered 200: the check of one threw, the check of the
\* other gave false.
C19_Witness ==
    /\ preq["r1"].isConnected = "throws"
    /\ preq["r2"].isConnected = "false"
    /\ responses["r1"] = << Ok200 >>
    /\ responses["r2"] = << Ok200 >>

===========================================================================
